---------------------------- MODULE Spec2Model ----------------------------
(***************************************************************************)
(* A model of the Rugs.fun seed analyzer (src/seed_analysis_code.py):      *)
(* the RugsTimeSeedAnalyzer object, its live collection (collect_data),    *)
(* its candidate generation and hold-out validation                        *)
(* (brute_force_seed_generation), the quick and the full analysis; and of  *)
(* the data analyzer (src/JS-TERMINAL-DATA-Collector/analysis_tools.py):   *)
(* the RugsDataAnalyzer object, its loading and its analyses.              *)
(*                                                                         *)
(* The source file is stored with its blocks out of order.  The body of    *)
(* brute_force_seed_generation is lines 1036-1064 followed by lines        *)
(* 167-415.  run_quick_analysis is what follows its def: the guard of      *)
(* lines 160-162, the slice of line 165, and then line 171, which reads    *)
(* the name sample that the method never binds.  Lines 613-666 follow the  *)
(* end of the script and belong to no method.                              *)
(*                                                                         *)
(* Text is a sequence of one-character strings, so that concatenation,     *)
(* str.format, substring search and emptiness are computed as Python       *)
(* computes them.  A hexadecimal string (a digest, a server seed) is a     *)
(* sequence of words, one word standing for HexPerWord hex characters: a   *)
(* word written out, or a word of a digest of hashlib.                     *)
(***************************************************************************)
EXTENDS Integers, Sequences, FiniteSets, TLC

(***************************************************************************)
(* The analyzer object and what each call of brute_force_seed_generation   *)
(* did and returned.                                                       *)
(***************************************************************************)
VARIABLES
  games,      \* self.games
  data_file,  \* whether self.data_path is set, and the lines the file holds
  calls,      \* the calls of brute_force_seed_generation so far, in order
  loaded,     \* what the last call of load_data returned
  current_game,       \* self.current_game
  connection_active,  \* self.connection_active
  connection,         \* self.connection: the number of the connection
  hash_candidates,    \* self.hash_candidates
  time_patterns,      \* self.time_patterns
  bit_patterns,       \* self.bit_patterns
  files,      \* the files written so far: name -> content
  feed,       \* the live feed: whether it is open, the rounds it has started
  collect,    \* the calls of collect_data, running or finished, in order
  analyses,   \* the analyses run so far and what each returned, in order
  program,    \* which of the two scripts is run
  master_file,        \* the lines of <data_dir>/all-games.jsonl, if it exists
  raw_games,  \* RugsDataAnalyzer.raw_games
  games_df    \* RugsDataAnalyzer.games_df

\* the RugsTimeSeedAnalyzer object
analyzerVars ==
  <<games, current_game, connection_active, connection, hash_candidates,
    time_patterns, bit_patterns>>

\* the RugsDataAnalyzer object and its data directory
toolVars == <<master_file, raw_games, games_df>>

vars ==
  <<games, data_file, calls, loaded, current_game, connection_active,
    connection,
    hash_candidates, time_patterns, bit_patterns, files, feed, collect,
    analyses, program, master_file, raw_games, games_df>>

(***************************************************************************)
(* Bounds of the model.                                                    *)
(***************************************************************************)
\* games holds at most MaxGames records
MaxGames == 3
\* brute_force_seed_generation is called with sample_size in 0..MaxSample
MaxSample == 2
\* the first NumSecrets entries of common_secrets are enumerated
NumSecrets == 2
\* the first NumSaltFormats entries of salt_formats are enumerated
NumSaltFormats == 3
\* the analyses (brute_force_seed_generation and the others) are called at
\* most MaxRuns times in a behaviour
MaxRuns == 2

(***************************************************************************)
(* Program constants.                                                      *)
(***************************************************************************)
\* validation_games = self.games[sample_size:sample_size+100]
ValidationWindow == 100
\* hash[:16], seed.startswith(hash[:16])
PartialChars == 16
\* hex characters one word of a hexadecimal string stands for
HexPerWord == 8
\* hexdigest() lengths: md5 32, sha1 40, sha256 64 hex characters
Md5HexLen == 32
Sha1HexLen == 40
Sha256HexLen == 64

(***************************************************************************)
(* Text helpers.                                                           *)
(***************************************************************************)
Min(a, b) == IF a < b THEN a ELSE b

Max(a, b) == IF a < b THEN b ELSE a

\* s.startswith(p)
StartsWith(s, p) == Len(p) <= Len(s) /\ SubSeq(s, 1, Len(p)) = p

\* sub in s
Contains(s, sub) ==
  \E i \in 1..(Len(s) - Len(sub) + 1) : SubSeq(s, i, i + Len(sub) - 1) = sub

\* the position of the first occurrence of sub in s, 0 when there is none
Find(s, sub) ==
  IF Contains(s, sub)
  THEN CHOOSE i \in 1..(Len(s) - Len(sub) + 1) :
         /\ SubSeq(s, i, i + Len(sub) - 1) = sub
         /\ \A j \in 1..(i - 1) : SubSeq(s, j, j + Len(sub) - 1) # sub
  ELSE 0

DigitChars == <<"0", "1", "2", "3", "4", "5", "6", "7", "8", "9">>

\* str(n) for a natural number n
RECURSIVE Str(_)
Str(n) == IF n < 10 THEN <<DigitChars[n + 1]>>
          ELSE Str(n \div 10) \o <<DigitChars[(n % 10) + 1]>>

\* strftime's zero-padded fields (%m %d %H %M %S 2 digits; %Y is not
\* padded: the C library writes the year 999 as 999)
RECURSIVE Pad(_, _)
Pad(n, width) == IF width <= 0 THEN <<>>
                 ELSE Pad(n \div 10, width - 1) \o <<DigitChars[(n % 10) + 1]>>

\* the characters of the string literals the program names
Lit ==
  [ epoch |-> <<"e", "p", "o", "c", "h">>,
    epoch_ms |-> <<"e", "p", "o", "c", "h", "_", "m", "s">>,
    date |-> <<"d", "a", "t", "e">>,
    time |-> <<"t", "i", "m", "e">>,
    datetime |-> <<"d", "a", "t", "e", "t", "i", "m", "e">>,
    year |-> <<"y", "e", "a", "r">>,
    month |-> <<"m", "o", "n", "t", "h">>,
    day |-> <<"d", "a", "y">>,
    hour |-> <<"h", "o", "u", "r">>,
    minute |-> <<"m", "i", "n", "u", "t", "e">>,
    second |-> <<"s", "e", "c", "o", "n", "d">>,
    microsecond |-> <<"m", "i", "c", "r", "o", "s", "e", "c", "o", "n", "d">>,
    game_id |-> <<"g", "a", "m", "e", "_", "i", "d">>,
    TimeSecret |-> <<"T", "i", "m", "e", "S", "e", "c", "r", "e", "t">>,
    SecretTime |-> <<"S", "e", "c", "r", "e", "t", "T", "i", "m", "e">> ]

\* common_secrets, in list order
AllSecrets ==
  << <<"r", "u", "g", "s", ".", "f", "u", "n">>,
     <<"r", "u", "g", "s", "f", "u", "n">>,
     <<"r", "u", "g">>,
     <<"r", "u", "g", "p", "u", "l", "l">>,
     <<"c", "r", "y", "p", "t", "o">>,
     <<"g", "a", "m", "e">>,
     <<"s", "e", "e", "d">>,
     <<"r", "a", "n", "d", "o", "m">>,
     <<"b", "i", "t", "c", "o", "i", "n">>,
     <<"e", "t", "h", "e", "r", "e", "u", "m">>,
     <<"s", "e", "c", "r", "e", "t">>,
     <<"p", "r", "o", "v", "a", "b", "l", "y", "-", "f", "a", "i", "r">> >>

\* salt_formats, in list order
AllSaltFormats ==
  << <<"{", "}">>,
     <<"{", "}", "_", "s", "a", "l", "t">>,
     <<"s", "a", "l", "t", "_", "{", "}">>,
     <<"{", "}", "_", "k", "e", "y">>,
     <<"k", "e", "y", "_", "{", "}">>,
     <<"{", "}", "_", "s", "e", "e", "d">>,
     <<"s", "e", "e", "d", "_", "{", "}">> >>

common_secrets == SubSeq(AllSecrets, 1, Min(NumSecrets, Len(AllSecrets)))

salt_formats == SubSeq(AllSaltFormats, 1, Min(NumSaltFormats, Len(AllSaltFormats)))

\* salt_format.format(secret): the one replacement field is replaced
Format(salt_format, secret) ==
  LET p == Find(salt_format, <<"{", "}">>)
  IN  IF p = 0 THEN salt_format
      ELSE SubSeq(salt_format, 1, p - 1) \o secret
             \o SubSeq(salt_format, p + 2, Len(salt_format))

(***************************************************************************)
(* hashlib.  The digest algorithms are library code and their output is    *)
(* not computed: a digest is kept as a term, the i-th word of the digest   *)
(* of an input under an algorithm being the algorithm, the input and i.    *)
(* So a digest is a function of the algorithm and of the encoded input     *)
(* alone and its length is fixed by the algorithm.  md5 is not free of     *)
(* collisions: the inputs of the published collisions listed below have    *)
(* one digest (each pair gives one digest under hashlib.md5), and so have  *)
(* two inputs that continue the two members of a pair of whole 64-byte     *)
(* blocks by the same bytes.  The term of an md5 digest is written with    *)
(* the first member of the pair.  Other digests are equal, or share their  *)
(* first PartialChars characters, only when algorithm and input are the    *)
(* same: no collision of sha256 is known, the known collisions of sha1     *)
(* are documents longer than any input of the model, and no input is       *)
(* known whose digests under two of the algorithms begin with the same 16  *)
(* characters.  A word written out is not a word of a digest.              *)
(***************************************************************************)
LowerChars ==
  <<"a", "b", "c", "d", "e", "f", "g", "h", "i", "j", "k", "l", "m",
    "n", "o", "p", "q", "r", "s", "t", "u", "v", "w", "x", "y", "z">>

UpperChars ==
  <<"A", "B", "C", "D", "E", "F", "G", "H", "I", "J", "K", "L", "M",
    "N", "O", "P", "Q", "R", "S", "T", "U", "V", "W", "X", "Y", "Z">>

\* the ASCII code of a character
Ord ==
  [c \in {DigitChars[i] : i \in 1..10} |->
      47 + (CHOOSE i \in 1..10 : DigitChars[i] = c)]
  @@ [c \in {LowerChars[i] : i \in 1..26} |->
      96 + (CHOOSE i \in 1..26 : LowerChars[i] = c)]
  @@ [c \in {UpperChars[i] : i \in 1..26} |->
      64 + (CHOOSE i \in 1..26 : UpperChars[i] = c)]
  @@ [c \in {"-", ".", "_", "{", "}"} |->
      CASE c = "-" -> 45 [] c = "." -> 46 [] c = "_" -> 95
        [] c = "{" -> 123 [] c = "}" -> 125]

\* test_input.encode()
Encode(s) == [i \in 1..Len(s) |-> Ord[s[i]]]

HashTypes == <<"md5", "sha1", "sha256">>

\* the number of words of a hexdigest
DigestWords(hash_type) ==
  CASE hash_type = "md5" -> Md5HexLen \div HexPerWord
    [] hash_type = "sha1" -> Sha1HexLen \div HexPerWord
    [] hash_type = "sha256" -> Sha256HexLen \div HexPerWord

\* a word of a hexadecimal string written out, n its number
HexWord(n) == <<"hex", <<>>, n>>

\* None, the value of state.get('serverSeed') for a state without the field
\* and of a JSON null: it equals no hexadecimal string
NoneSeed == <<HexWord(-1)>>

\* two game ids, text of 72 characters, with one md5 digest
\* (faad49866e9498fc1719f5289e7a0269): the second has E for the A at
\* position 22
TextTwin ==
  << "T", "E", "X", "T", "C", "O", "L", "L", "B", "Y", "f", "G", "i",
     "J", "U", "E", "T", "H", "Q", "4", "h", "A", "c", "K", "S", "M",
     "d", "5", "z", "Y", "p", "g", "q", "f", "1", "Y", "R", "D", "h",
     "k", "m", "x", "H", "k", "h", "P", "W", "p", "t", "r", "k", "o",
     "y", "z", "2", "8", "w", "n", "I", "9", "V", "0", "a", "H", "e",
     "A", "u", "a", "K", "n", "a", "k" >>

TextTwinOther == [TextTwin EXCEPT ![22] = "E"]

\* two blocks of 64 bytes with one md5 digest
\* (008ee33a9d58b51cfeb425b0959121c9): the second differs in bytes 36 and 56
BlockTwin ==
  << 77, 201, 104, 255, 14, 227, 92, 32, 149, 114, 212, 119, 123, 114,
     21, 135, 211, 111, 167, 178, 27, 220, 86, 183, 74, 61, 192, 120,
     62, 123, 149, 24, 175, 191, 162, 0, 168, 40, 75, 243, 110, 142,
     75, 85, 179, 95, 66, 117, 147, 216, 73, 103, 109, 160, 209, 85,
     93, 131, 96, 251, 95, 7, 254, 162 >>

BlockTwinOther == [BlockTwin EXCEPT ![36] = 2, ![56] = 213]

\* two inputs of 128 bytes with one md5 digest
\* (79054025255fb1a26e4bc422aef54eb4): the second differs in six bytes
BlocksTwin ==
  << 209, 49, 221, 2, 197, 230, 238, 196, 105, 61, 154, 6, 152, 175,
     249, 92, 47, 202, 181, 135, 18, 70, 126, 171, 64, 4, 88, 62, 184,
     251, 127, 137, 85, 173, 52, 6, 9, 244, 179, 2, 131, 228, 136,
     131, 37, 113, 65, 90, 8, 81, 37, 232, 247, 205, 201, 159, 217,
     29, 189, 242, 128, 55, 60, 91, 216, 130, 62, 49, 86, 52, 143, 91,
     174, 109, 172, 212, 54, 201, 25, 198, 221, 83, 226, 180, 135,
     218, 3, 253, 2, 57, 99, 6, 210, 72, 205, 160, 233, 159, 51, 66,
     15, 87, 126, 232, 206, 84, 182, 112, 128, 168, 13, 30, 198, 152,
     33, 188, 182, 168, 131, 147, 150, 249, 101, 43, 111, 247, 42, 112 >>

BlocksTwinOther ==
  [BlocksTwin EXCEPT ![20] = 7, ![46] = 241, ![60] = 114, ![84] = 52,
                     ![110] = 40, ![124] = 171]

\* the bytes after the first n
After(bytes, n) == SubSeq(bytes, n + 1, Len(bytes))

\* the input the term of an md5 digest is written with: the first member of
\* a colliding pair for the second, the input itself otherwise
Md5Input(bytes) ==
  IF Len(bytes) < Len(BlockTwin) THEN bytes
  ELSE IF bytes = Encode(TextTwinOther) THEN Encode(TextTwin)
  ELSE IF StartsWith(bytes, BlockTwinOther)
       THEN BlockTwin \o After(bytes, Len(BlockTwin))
  ELSE IF StartsWith(bytes, BlocksTwinOther)
       THEN BlocksTwin \o After(bytes, Len(BlocksTwin))
  ELSE bytes

\* hashlib.<hash_type>(bytes).hexdigest()
HexDigest(hash_type, bytes) ==
  IF hash_type = "md5"
  THEN [i \in 1..DigestWords(hash_type) |-> <<hash_type, Md5Input(bytes), i>>]
  ELSE [i \in 1..DigestWords(hash_type) |-> <<hash_type, bytes, i>>]

\* hash[:16]
Prefix16(digest) == SubSeq(digest, 1, Min(PartialChars \div HexPerWord, Len(digest)))

(***************************************************************************)
(* datetime.  A timestamp is the parsed value of an ISO-8601 string        *)
(* (datetime.fromisoformat), read as UTC.                                  *)
(***************************************************************************)
\* days from 1970-01-01 to the civil date y-m-d (proleptic Gregorian)
DaysFromCivil(y, m, d) ==
  LET yy  == IF m <= 2 THEN y - 1 ELSE y
      era == yy \div 400
      yoe == yy - era * 400
      mp  == (m + 9) % 12
      doy == (153 * mp + 2) \div 5 + d - 1
      doe == yoe * 365 + yoe \div 4 - yoe \div 100 + doy
  IN  era * 146097 + doe - 719468

\* the whole seconds from 1970-01-01T00:00:00 to dt, its microseconds left
\* out (what mktime returns to dt.timestamp() for a naive datetime, in UTC)
EpochSeconds(dt) ==
  DaysFromCivil(dt.year, dt.month, dt.day) * 86400
    + dt.hour * 3600 + dt.minute * 60 + dt.second

(***************************************************************************)
(* float.  dt.timestamp() is seconds + microsecond / 1e6 in IEEE 754       *)
(* double precision, and dt.timestamp() * 1000 a product in it: each       *)
(* operation gives the double nearest to the exact result, ties to the     *)
(* even significand.  A float is a sign, its significant binary digits     *)
(* (the high one first, at most Significand of them, the first one 1; none *)
(* for zero) and point, the number of digits before the binary point.      *)
(***************************************************************************)
\* binary digits of the significand of a double
Significand == 53
\* 1e6
Million == 1000000

\* the binary digits of a natural number below 2^31, the high one first;
\* none for 0
Binary(n) ==
  CHOOSE b \in
    { <<>> \o [j \in 1..len |-> (n \div 2^(len - j)) % 2] :
        len \in {Cardinality({l \in 0..30 : 2^l <= n})} } : TRUE

\* the last width binary digits of n, as a sequence
Bits(n, width) == <<>> \o [j \in 1..width |-> (n \div 2^(width - j)) % 2]

\* the number whose binary digits are bits[i..j], the sum of its two halves;
\* digits after the last one of bits are 0
RECURSIVE Value(_, _, _)
Value(bits, i, j) ==
  IF i > j THEN 0
  ELSE IF i = j THEN (IF j <= Len(bits) THEN bits[j] ELSE 0)
  ELSE CHOOSE v \in
         { Value(bits, i, m) * 2^(j - m) + Value(bits, m + 1, j) :
             m \in {(i + j) \div 2} } : TRUE

\* the digits of the number one above
Incr(bits) ==
  IF \A i \in 1..Len(bits) : bits[i] = 1
  THEN <<1>> \o [i \in 1..Len(bits) |-> 0]
  ELSE <<>> \o [i \in 1..Len(bits) |->
                  IF \A j \in (i + 1)..Len(bits) : bits[j] = 1 THEN 1 - bits[i]
                  ELSE bits[i]]

\* digits and point without the leading zeros
Normal(bits, point) ==
  IF \A i \in 1..Len(bits) : bits[i] = 0 THEN [bits |-> <<>>, point |-> 0]
  ELSE CHOOSE f \in
         { [bits |-> SubSeq(bits, first, Len(bits)), point |-> point - first + 1] :
             first \in { i \in 1..Len(bits) :
                           bits[i] = 1 /\ \A j \in 1..(i - 1) : bits[j] = 0 } } : TRUE

\* the double nearest to the number of digits f.bits, ties to even
Round53(f) ==
  IF Len(f.bits) <= Significand THEN f
  ELSE IF /\ f.bits[Significand + 1] = 1
          /\ \/ f.bits[Significand] = 1
             \/ \E i \in (Significand + 2)..Len(f.bits) : f.bits[i] = 1
  THEN CHOOSE r \in
         { IF Len(k) > Significand
           THEN [bits |-> SubSeq(k, 1, Significand), point |-> f.point + 1]
           ELSE [bits |-> k, point |-> f.point] :
             k \in { Incr(kept) : kept \in {SubSeq(f.bits, 1, Significand)} } } : TRUE
  ELSE [bits |-> SubSeq(f.bits, 1, Significand), point |-> f.point]

\* n more binary digits of the quotient by Million, after the digits acc
\* with r < Million remaining, and what remains then; ten digits at a time,
\* which keeps every number below 2^31
RECURSIVE LongDiv(_, _, _)
LongDiv(r, n, acc) ==
  IF n = 0 THEN [bits |-> acc, rem |-> r]
  ELSE CHOOSE d \in
         { LongDiv(next.r, next.n, next.acc) :
             next \in { [r |-> v % Million, n |-> n - Min(10, n),
                         acc |-> acc \o Bits(v \div Million, Min(10, n))] :
                           v \in {r * 2^Min(10, n)} } } : TRUE

\* dt.microsecond / 1e6 for a microsecond of 1..999999: the quotient to one
\* digit more than the significand and a last digit for what remains,
\* rounded; s doublings bring microsecond to Million or above
MicrosBy1e6(microsecond) ==
  CHOOSE a \in
    { Round53(q) : q \in
      UNION { { [bits |-> d.bits \o <<IF d.rem > 0 THEN 1 ELSE 0>>, point |-> 1 - s] :
                  d \in {LongDiv(microsecond * 2^s - Million, Significand, <<1>>)} } :
              s \in {Cardinality({j \in 0..19 :
                                    microsecond <= (Million - 1) \div 2^j})} } } : TRUE

\* 1 - a for the digits of a after the binary point, a > 0
Complement(bits) ==
  CHOOSE c \in
    { SubSeq(k, Len(k) - Len(bits) + 1, Len(k)) :
        k \in { Incr(inverted) :
                  inverted \in {<<>> \o [i \in 1..Len(bits) |-> 1 - bits[i]]} } } : TRUE

\* seconds + a, for whole seconds and a float 0 < a < 1: the digits of the
\* exact sum, rounded
SecondsPlus(seconds, a) ==
  CHOOSE t \in
    { [sign |-> IF seconds >= 0 THEN 1 ELSE -1, bits |-> sum.bits, point |-> sum.point] :
        sum \in
          { Round53(exact) : exact \in
            UNION { { Normal(digits, Len(whole)) : digits \in
                      { whole \o (IF seconds >= 0 THEN after ELSE Complement(after)) :
                          after \in {[i \in 1..(-a.point) |-> 0] \o a.bits} } } :
                    whole \in {Binary(IF seconds >= 0 THEN seconds ELSE -seconds - 1)} } } } : TRUE

\* dt.timestamp() of a naive datetime, in UTC
Timestamp(dt) ==
  CHOOSE t \in
    UNION { IF dt.microsecond = 0
            THEN { [sign |-> IF seconds >= 0 THEN 1 ELSE -1,
                    bits |-> whole, point |-> Len(whole)] :
                     whole \in {Binary(IF seconds >= 0 THEN seconds ELSE -seconds)} }
            ELSE { SecondsPlus(seconds, a) : a \in {MicrosBy1e6(dt.microsecond)} } :
            seconds \in {EpochSeconds(dt)} } : TRUE

\* the digits of bits[1..i] times k + carry, for natural numbers k and carry
\* up to 1000, before acc; ten digits at a time
RECURSIVE TimesDigits(_, _, _, _, _)
TimesDigits(bits, i, k, carry, acc) ==
  IF i = 0 THEN Binary(carry) \o acc
  ELSE CHOOSE p \in
         { TimesDigits(bits, next.i, k, next.carry, next.acc) :
             next \in { [i |-> i - Min(10, i), carry |-> v \div 2^Min(10, i),
                         acc |-> Bits(v, Min(10, i)) \o acc] :
                           v \in {Value(bits, i - Min(10, i) + 1, i) * k + carry} } } : TRUE

\* x * k for a float x and a natural number k of 1..1000: the digits of the
\* exact product, rounded
Times(x, k) ==
  CHOOSE y \in
    { [sign |-> x.sign, bits |-> r.bits, point |-> r.point] :
        r \in { Round53(exact) : exact \in
                UNION { { Normal(p, f.point + Len(p) - Len(f.bits)) :
                            p \in {TimesDigits(f.bits, Len(f.bits), k, 0, <<>>)} } :
                        f \in {x} } } } : TRUE

\* the digits of x before the binary point, from the i-th on, after the
\* number q * Million + r, as millions and the rest below; ten digits at a
\* time
RECURSIVE Millions(_, _, _, _)
Millions(x, i, q, r) ==
  IF i > x.point THEN [sign |-> x.sign, millions |-> q, rest |-> r]
  ELSE CHOOSE m \in
         { Millions(x, next.i, next.q, next.r) :
             next \in { [i |-> i + Min(10, x.point - i + 1),
                         q |-> q * 2^Min(10, x.point - i + 1) + v \div Million,
                         r |-> v % Million] :
                           v \in { r * 2^Min(10, x.point - i + 1)
                                     + Value(x.bits, i, i + Min(10, x.point - i + 1) - 1) } } } : TRUE

\* str(int(x)) for a float x: int() drops what is after the point
StrInt(x) ==
  CHOOSE text \in
    { IF n.millions = 0 /\ n.rest = 0 THEN <<"0">>
      ELSE (IF n.sign < 0 THEN <<"-">> ELSE <<>>)
             \o (IF n.millions > 0 THEN Str(n.millions) \o Pad(n.rest, 6)
                 ELSE Str(n.rest)) :
        n \in UNION { {Millions(f, 1, 0, 0)} : f \in {x} } } : TRUE

TimeKeys ==
  <<"epoch", "epoch_ms", "date", "time", "datetime", "year", "month", "day",
    "hour", "minute", "second", "microsecond", "game_id">>

\* one entry of time_formats; game is the record whose gameId is read
TimeValue(time_key, dt, game) ==
  CASE time_key = "epoch" -> StrInt(Timestamp(dt))
    [] time_key = "epoch_ms" -> StrInt(Times(Timestamp(dt), 1000))
    [] time_key = "date" -> Str(dt.year) \o Pad(dt.month, 2) \o Pad(dt.day, 2)
    [] time_key = "time" -> Pad(dt.hour, 2) \o Pad(dt.minute, 2) \o Pad(dt.second, 2)
    [] time_key = "datetime" ->
         Str(dt.year) \o Pad(dt.month, 2) \o Pad(dt.day, 2)
           \o Pad(dt.hour, 2) \o Pad(dt.minute, 2) \o Pad(dt.second, 2)
    [] time_key = "year" -> Str(dt.year)
    [] time_key = "month" -> Pad(dt.month, 2)
    [] time_key = "day" -> Pad(dt.day, 2)
    [] time_key = "hour" -> Pad(dt.hour, 2)
    [] time_key = "minute" -> Pad(dt.minute, 2)
    [] time_key = "second" -> Pad(dt.second, 2)
    [] time_key = "microsecond" -> Str(dt.microsecond)
    [] time_key = "game_id" ->
         IF "gameId" \in DOMAIN game THEN game.gameId ELSE <<>>

(***************************************************************************)
(* Candidate generation (brute_force_seed_generation, lines 1052 and       *)
(* 167-302).  A game record is a function from its field names to values:  *)
(* gameId is text, timestamp a parsed datetime, serverSeed a hex string.   *)
(***************************************************************************)
RECURSIVE Flatten(_)
Flatten(seqs) == IF seqs = <<>> THEN <<>> ELSE Head(seqs) \o Flatten(Tail(seqs))

\* the positions (from 1) of seq[lo:hi] in a list of len items, 0 <= lo
SlicePositions(len, lo, hi) == [k \in 1..(Min(hi, len) - lo) |-> lo + k]

\* the positions in games of sample = self.games[:sample_size]
SamplePositions(all_games, sample_size) ==
  SlicePositions(Len(all_games), 0, sample_size)

\* the records at the positions
At(all_games, positions) == [k \in 1..Len(positions) |-> all_games[positions[k]]]

\* 'timestamp' in game and 'serverSeed' in game
InPool(game) == "timestamp" \in DOMAIN game /\ "serverSeed" \in DOMAIN game

\* the positions in sample of the records appended to timestamps and seeds
PoolPositions(sample) ==
  SelectSeq([p \in 1..Len(sample) |-> p], LAMBDA p : InPool(sample[p]))

\* the record the name game is bound to after the loop "for game in sample"
LoopGame(sample, i) == sample[Len(sample)]

\* test_inputs, in list order: TimeSecret, SecretTime, Time only, Secret only
Orderings == <<"time+salt", "salt+time", "time", "salt">>

TestInput(ordering, time_val, salt) ==
  CASE ordering = "time+salt" -> time_val \o salt
    [] ordering = "salt+time" -> salt \o time_val
    [] ordering = "time" -> time_val
    [] ordering = "salt" -> salt

\* the if/elif chain over the three digests of the encoded input: a seed
\* that is None equals no digest and fails in the first startswith
MatchChainOn(seed, bytes) ==
  LET hash_md5 == HexDigest("md5", bytes)
      hash_sha1 == HexDigest("sha1", bytes)
      hash_sha256 == HexDigest("sha256", bytes)
  IN  IF seed = hash_md5 THEN <<"md5", "exact">>
      ELSE IF seed = hash_sha1 THEN <<"sha1", "exact">>
      ELSE IF seed = hash_sha256 THEN <<"sha256", "exact">>
      ELSE IF seed = NoneSeed THEN <<"AttributeError">>
      ELSE IF StartsWith(seed, Prefix16(hash_md5)) THEN <<"md5", "partial_16">>
      ELSE IF StartsWith(seed, Prefix16(hash_sha1)) THEN <<"sha1", "partial_16">>
      ELSE IF StartsWith(seed, Prefix16(hash_sha256)) THEN <<"sha256", "partial_16">>
      ELSE <<>>

\* the if/elif chain over the three digests of one test input: the
\* <<hash_type, match_type>> of the branch taken, <<>> when none is,
\* <<"AttributeError">> when seed.startswith of line 265 raises
MatchChain(seed, test_input) ==
  CHOOSE match \in
    {MatchChainOn(seed, bytes) : bytes \in {Encode(test_input)}} : TRUE

\* whether the loop body runs for a time format: "if not time_val: continue"
Hashed(time_val) == time_val # <<>>

\* the test inputs hashed for one (record, time format, secret, salt format),
\* in list order, each with the branch of the match chain it took
EventsForSalt(i, pos, seed, time_key, time_val, secret, salt_format) ==
  LET salt == Format(salt_format, secret)
  IN  [o \in 1..Len(Orderings) |->
        LET test_input == TestInput(Orderings[o], time_val, salt)
        IN  [ index |-> i, pos |-> pos, seed |-> seed, time_format |-> time_key,
              time_val |-> time_val, secret |-> secret,
              salt_format |-> salt_format, ordering |-> Orderings[o],
              input |-> test_input, match |-> MatchChain(seed, test_input) ]]

\* the test inputs hashed for one (record, time format)
EventsForTimeKey(i, pos, seed, time_key, time_val) ==
  IF ~Hashed(time_val) THEN <<>>
  ELSE Flatten([k \in 1..(Len(common_secrets) * Len(salt_formats)) |->
         EventsForSalt(i, pos, seed, time_key, time_val,
           common_secrets[((k - 1) \div Len(salt_formats)) + 1],
           salt_formats[((k - 1) % Len(salt_formats)) + 1])])

\* the test inputs hashed for the i-th pooled record (i counts from 0)
EventsForRecord(sample, i) ==
  LET pos == PoolPositions(sample)[i + 1]
      dt == sample[pos].timestamp
      seed == sample[pos].serverSeed
  IN  Flatten([t \in 1..Len(TimeKeys) |->
        EventsForTimeKey(i, pos, seed, TimeKeys[t],
          TimeValue(TimeKeys[t], dt, LoopGame(sample, i)))])

\* a loop that an exception leaves, raising being the steps that raise:
\* the steps up to the first of them, that one included
UpToRaise(steps, raising) ==
  IF raising = {} THEN steps
  ELSE SubSeq(steps, 1, CHOOSE k \in raising : \A j \in raising : k <= j)

\* every test input the generation loop hashes, in loop order, until the
\* chain raises
HashEvents(sample) ==
  CHOOSE hashed \in
    { UpToRaise(all, {k \in 1..Len(all) :
                        all[k].match = <<"AttributeError">>}) : all \in
      { Flatten([k \in 1..Len(PoolPositions(sample)) |->
                   EventsForRecord(sample, k - 1)]) } } : TRUE

\* whether the generation loop ended in the exception
GenerationRaised(events) ==
  events # <<>> /\ events[Len(events)].match = <<"AttributeError">>

PatternFields ==
  {"index", "seed", "time_format", "secret", "salt_format", "input",
   "hash_type", "match_type"}

\* the dictionary appended to found_patterns for a test input that matched
Pattern(e) ==
  [ index |-> e.index, seed |-> e.seed, time_format |-> e.time_format,
    secret |-> e.secret, salt_format |-> e.salt_format, input |-> e.input,
    hash_type |-> e.match[1], match_type |-> e.match[2] ]

\* the hash events that appended a pattern, in the order of found_patterns
MatchedOf(events) == SelectSeq(events, LAMBDA e : Len(e.match) = 2)

\* found_patterns: the dictionaries appended, in order
FoundOf(matched) == [k \in 1..Len(matched) |-> Pattern(matched[k])]

\* found_patterns after the generation loop over sample
FoundPatterns(sample) == FoundOf(MatchedOf(HashEvents(sample)))

\* the (pooled record, time format) pairs whose loop body ran, with the
\* position in sample of the record and of the record whose gameId was read
GenerationLog(events, sample_pos) ==
  { [index |-> events[k].index, pos |-> sample_pos[events[k].pos],
     time_format |-> events[k].time_format, time_val |-> events[k].time_val,
     gid_pos |-> sample_pos[Len(sample_pos)]] : k \in 1..Len(events) }

(***************************************************************************)
(* Hold-out validation (lines 304-413).                                    *)
(***************************************************************************)
\* key = (time_format, secret, salt_format, hash_type, match_type)
PatternKey(p) ==
  <<p.time_format, p.secret, p.salt_format, p.hash_type, p.match_type>>

\* the keys of pattern_groups, in insertion order
GroupKeys(found) ==
  LET first(k) == \A j \in 1..(k - 1) : PatternKey(found[j]) # PatternKey(found[k])
      idx == SelectSeq([k \in 1..Len(found) |-> k], first)
  IN  [n \in 1..Len(idx) |-> PatternKey(found[idx[n]])]

\* pattern_groups[key]
GroupOf(found, key) == SelectSeq(found, LAMBDA p : PatternKey(p) = key)

\* a validation slice taken from the start of games: games[:100]
ValidationPositionsFromStart(all_games, sample_size) ==
  SlicePositions(Len(all_games), 0, ValidationWindow)

\* the positions in games of
\* validation_games = self.games[sample_size:sample_size+100]
ValidationPositions(all_games, sample_size) ==
  SlicePositions(Len(all_games), sample_size, sample_size + ValidationWindow)

\* the if/elif chain on time_format; a name outside it leaves time_val None
ValidationTimeValue(time_format, dt, game) ==
  IF \E t \in 1..Len(TimeKeys) : TimeKeys[t] = time_format
  THEN TimeValue(time_format, dt, game)
  ELSE <<>>

\* "Same pattern as found before": the input re-hashed for a pattern
ValidationInput(pattern, time_val, salt) ==
  IF Contains(pattern.input, Lit.TimeSecret) THEN time_val \o salt
  ELSE IF Contains(pattern.input, Lit.SecretTime) THEN salt \o time_val
  ELSE IF pattern.input = Lit[pattern.time_format] THEN time_val
  ELSE salt

\* the check of one re-hashed input against the validation record's seed
IsMatch(match_type, seed, hash_value) ==
  \/ match_type = "exact" /\ seed = hash_value
  \/ match_type = "partial_16" /\ StartsWith(seed, Prefix16(hash_value))

\* whether the check raises: seed.startswith of a seed that is None
\* (AttributeError, line 398); the test of an exact group compares only
MatchRaises(match_type, seed) == match_type = "partial_16" /\ seed = NoneSeed

\* the inner loop "for pattern in patterns" for one validation record: the
\* inputs hashed, in order, up to the first that matches (break) or raises
PatternTests(group, hash_type, match_type, time_val, salt, seed) ==
  LET test(k) ==
        LET test_input == ValidationInput(Pattern(group[k]), time_val, salt)
            hash_value == HexDigest(hash_type, Encode(test_input))
        IN  [ ordering |-> group[k].ordering, input |-> test_input,
              hash_value |-> hash_value,
              raised |-> MatchRaises(match_type, seed),
              matched |-> /\ ~MatchRaises(match_type, seed)
                          /\ IsMatch(match_type, seed, hash_value) ]
      all == [k \in 1..Len(group) |-> test(k)]
      hit == {k \in 1..Len(group) : all[k].matched \/ all[k].raised}
      last == IF hit = {} THEN Len(group)
              ELSE CHOOSE k \in hit : \A j \in hit : k <= j
  IN  SubSeq(all, 1, last)

\* what the loop over validation_games does with the record at position pos
\* of games, for one pattern group
ValidateRecord(group, key, salt, game, pos) ==
  IF ~InPool(game)
  THEN [pos |-> pos, counted |-> FALSE, time_val |-> <<>>, tests |-> <<>>,
        matched |-> FALSE, raised |-> FALSE]
  ELSE LET time_val == ValidationTimeValue(key[1], game.timestamp, game)
           tests == IF ~Hashed(time_val) THEN <<>>
                    ELSE PatternTests(group, key[4], key[5], time_val, salt,
                                      game.serverSeed)
       IN  [pos |-> pos, counted |-> TRUE, time_val |-> time_val,
            tests |-> tests,
            matched |-> tests # <<>> /\ tests[Len(tests)].matched,
            raised |-> tests # <<>> /\ tests[Len(tests)].raised]

\* 'success_rate': matches / total if total > 0 else 0
SuccessRate(matches, total) ==
  IF total > 0 THEN [kind |-> "value", num |-> matches, den |-> total]
  ELSE [kind |-> "value", num |-> 0, den |-> 1]

\* a validation without the break: every hypothesis of the group that
\* matches a record adds one to matches
ValidateGroupCountingAll(matched, key, all_games, sample_size) ==
  LET group == SelectSeq(matched, LAMBDA e : PatternKey(Pattern(e)) = key)
      salt == Format(key[3], key[2])
      vpos == ValidationPositions(all_games, sample_size)
      total(recs) == Cardinality({k \in 1..Len(recs) : recs[k].counted})
      matches(recs) ==
        Cardinality(
          { kj \in (1..Len(recs)) \X (1..Len(group)) :
              /\ recs[kj[1]].counted
              /\ ~recs[kj[1]].raised
              /\ Hashed(recs[kj[1]].time_val)
              /\ IsMatch(key[5], all_games[vpos[kj[1]]].serverSeed,
                         HexDigest(key[4],
                           Encode(ValidationInput(Pattern(group[kj[2]]),
                                                  recs[kj[1]].time_val, salt)))) })
      counts(recs) ==
        [ key |-> key, matches |-> matches(recs), total |-> total(recs),
          success_rate |-> SuccessRate(matches(recs), total(recs)),
          records |-> recs,
          raised |-> recs # <<>> /\ recs[Len(recs)].raised ]
  IN  CHOOSE result \in
        { counts(recs) : recs \in
          { UpToRaise(all, {k \in 1..Len(all) : all[k].raised}) : all \in
            { <<>> \o [k \in 1..Len(vpos) |->
                        ValidateRecord(group, key, salt, all_games[vpos[k]],
                                       vpos[k])] } } } : TRUE

\* the loop over validation_games for one key: matches and total as the
\* loop left them, what was done to each validation record, and whether
\* the loop raised; when it did not, validation_results[key] is stored
ValidateGroup(matched, key, all_games, sample_size) ==
  LET group == SelectSeq(matched, LAMBDA e : PatternKey(Pattern(e)) = key)
      salt == Format(key[3], key[2])
      vpos == ValidationPositions(all_games, sample_size)
      total(recs) == Cardinality({k \in 1..Len(recs) : recs[k].counted})
      matches(recs) == Cardinality({k \in 1..Len(recs) : recs[k].matched})
      counts(recs) ==
        [ key |-> key, matches |-> matches(recs), total |-> total(recs),
          success_rate |-> SuccessRate(matches(recs), total(recs)),
          records |-> recs,
          raised |-> recs # <<>> /\ recs[Len(recs)].raised ]
  IN  CHOOSE result \in
        { counts(recs) : recs \in
          { UpToRaise(all, {k \in 1..Len(all) : all[k].raised}) : all \in
            { <<>> \o [k \in 1..Len(vpos) |->
                        ValidateRecord(group, key, salt, all_games[vpos[k]],
                                       vpos[k])] } } } : TRUE

\* whether the validation block runs
Validates(found, all_games, sample_size) ==
  found # <<>> /\ Len(all_games) > sample_size

\* the loop over pattern_groups, in insertion order, until a group raises
ValidatedGroups(matched, all_games, sample_size) ==
  LET found == FoundOf(matched)
      keys == GroupKeys(found)
  IN  IF Validates(found, all_games, sample_size)
      THEN CHOOSE gone \in
             { UpToRaise(all, {n \in 1..Len(all) : all[n].raised}) : all \in
               { <<>> \o [n \in 1..Len(keys) |->
                            ValidateGroup(matched, keys[n], all_games,
                                          sample_size)] } } : TRUE
      ELSE <<>>

\* validation_results, in insertion order: the groups that were stored
ValidationResults(groups) == SelectSeq(groups, LAMBDA result : ~result.raised)

(***************************************************************************)
(* The records a data file may hold.  Seeds are built from digests of      *)
(* inputs of the enumeration, so that exact and partial matches occur.     *)
(***************************************************************************)
T1 ==
  [year |-> 2024, month |-> 1, day |-> 1, hour |-> 12, minute |-> 30,
   second |-> 45, microsecond |-> 123456]

T2 ==
  [year |-> 2024, month |-> 1, day |-> 2, hour |-> 0, minute |-> 0,
   second |-> 0, microsecond |-> 0]

GameIdA == <<"2", "0", "2", "4", "0", "1", "0", "1", "-", "a", "1">>

GameIdB == <<"2", "0", "2", "4", "0", "1", "0", "2", "-", "b", "2">>

RugsFun == AllSecrets[1]

\* sha256("20240101" + "rugs.fun_salt")
SeedExact ==
  HexDigest("sha256",
    Encode(TimeValue("date", T1, <<>>) \o Format(AllSaltFormats[2], RugsFun)))

\* md5("rugs.fun")
SeedSalt == HexDigest("md5", Encode(Format(AllSaltFormats[1], RugsFun)))

\* the first 16 characters of md5("rugs.fun"), then other ones
SeedPartial ==
  Prefix16(HexDigest("md5", Encode(Format(AllSaltFormats[1], RugsFun))))
  \o <<HexWord(1), HexWord(2), HexWord(3)>>

\* the first 16 characters of md5("salt_rugs.fun" + "30"), then other ones
SeedMinute ==
  Prefix16(HexDigest("md5",
    Encode(Format(AllSaltFormats[3], RugsFun) \o TimeValue("minute", T1, <<>>))))
  \o <<HexWord(4), HexWord(5), HexWord(6), HexWord(7), HexWord(8), HexWord(9)>>

RecExact == [gameId |-> GameIdA, timestamp |-> T1, serverSeed |-> SeedExact]

RecSalt == [gameId |-> GameIdB, timestamp |-> T2, serverSeed |-> SeedSalt]

RecNoId == [timestamp |-> T2, serverSeed |-> SeedPartial]

RecNoTime == [gameId |-> GameIdA, serverSeed |-> SeedSalt]

RecNoSeed == [gameId |-> GameIdB, timestamp |-> T1]

RecMinute == [gameId |-> GameIdA, timestamp |-> T1, serverSeed |-> SeedMinute]

\* a record collect_data stored from a 'rugged' update without serverSeed:
\* state.get('serverSeed') is None and the file holds null
RecNone == [gameId |-> GameIdB, timestamp |-> T2, serverSeed |-> NoneSeed]

Records ==
  {RecExact, RecSalt, RecNoId, RecNoTime, RecNoSeed, RecMinute, RecNone}

\* two records whose gameIds are the two texts of one md5 digest, the seed
\* of the first being that digest
TwinCollection ==
  << [gameId |-> TextTwin, timestamp |-> T1,
      serverSeed |-> HexDigest("md5", Encode(TextTwin))],
     [gameId |-> TextTwinOther, timestamp |-> T2, serverSeed |-> SeedPartial] >>

\* the lists of records a data file may hold
GameLists == UNION {[1..n -> Records] : n \in 0..MaxGames}

\* a line of a data file that is not JSON
Malformed == [malformed |-> TRUE]

IsMalformed(line) == "malformed" \in DOMAIN line

\* a data file: whether self.data_path is set, whether its name ends with
\* .jsonl, and the lines (or, for a .json file, the elements) it holds
\* a collection longer than the sample and the validation window together
LongCollection == [k \in 1..(MaxSample + ValidationWindow + 1) |-> RecSalt]

DataFiles ==
  {[has_path |-> TRUE, jsonl |-> TRUE, records |-> g] : g \in GameLists}
    \cup {[has_path |-> TRUE, jsonl |-> TRUE, records |-> LongCollection]}
    \cup {[has_path |-> TRUE, jsonl |-> TRUE, records |-> TwinCollection]}
    \cup {[has_path |-> FALSE, jsonl |-> FALSE, records |-> <<>>]}

\* the record of a call that returned None
ReturnedNone(sample_size) ==
  [status |-> "returned None", games |-> <<>>, sample_size |-> sample_size]

(***************************************************************************)
(* The values the constructors leave in the two objects, and the state     *)
(* outside them before anything has run.                                   *)
(***************************************************************************)
\* self.current_game = None
NoGame == [open |-> FALSE]

\* defaultdict(list) and {} before anything is stored
EmptyDict == [stored |-> FALSE]

\* the feed: whether the server is up, its clock, the dictionaries built
\* from it, whether a round is being played and the updates sent inside
\* rounds after their first; here no server is up
NoFeed ==
  [open |-> FALSE, clock |-> 0, created |-> 0, in_round |-> FALSE, ticks |-> 0]

\* the calls of collect_data made so far; here none has been made
NoCollect == <<>>

\* <data_dir>/all-games.jsonl does not exist
NoMasterFile == [exists |-> FALSE, lines |-> <<>>]

\* self.games_df = None
NoFrame == [loaded |-> FALSE, rows |-> <<>>]

\* whether a call of collect_data is in progress
Collecting == \E k \in 1..Len(collect) : collect[k].running

\* RugsTimeSeedAnalyzer.__init__: self.connection is not assigned (0)
SeedAnalyzerConstructed ==
  /\ games = <<>>
  /\ current_game = NoGame
  /\ connection_active = FALSE
  /\ connection = 0
  /\ time_patterns = EmptyDict
  /\ hash_candidates = <<>>
  /\ bit_patterns = EmptyDict

\* RugsDataAnalyzer.__init__
DataAnalyzerConstructed ==
  /\ games_df = NoFrame
  /\ raw_games = <<>>

\* nothing has been called, no file has been written
NothingRun ==
  /\ calls = <<>>
  /\ loaded = "not called"
  /\ files = {}
  /\ collect = NoCollect
  /\ analyses = <<>>

(***************************************************************************)
(* The analyzer's operations.                                              *)
(***************************************************************************)
Init ==
  /\ SeedAnalyzerConstructed
  /\ DataAnalyzerConstructed
  /\ NothingRun
  /\ program = "seed_analysis"
  /\ data_file \in DataFiles
  /\ feed = NoFeed
  /\ master_file = NoMasterFile

\* the lines json.loads accepts before the first one it rejects
RECURSIVE ParsedPrefix(_)
ParsedPrefix(lines) ==
  IF lines = <<>> \/ IsMalformed(Head(lines)) THEN <<>>
  ELSE <<Head(lines)>> \o ParsedPrefix(Tail(lines))

\* whether load_data() returns True
LoadSucceeds ==
  /\ data_file.has_path
  /\ \A k \in 1..Len(data_file.records) : ~IsMalformed(data_file.records[k])

\* self.games after load_data() when it held g: a JSONL file is read line
\* by line into a new list until a line raises, a JSON file is read whole
\* or not at all
GamesAfterLoadOf(g) ==
  IF ~data_file.has_path THEN g
  ELSE IF data_file.jsonl THEN ParsedPrefix(data_file.records)
  ELSE IF LoadSucceeds THEN data_file.records
  ELSE g

GamesAfterLoad == GamesAfterLoadOf(games)

\* what load_data() returns
LoadReturns == IF LoadSucceeds THEN "True" ELSE "False"

\* what is left alone by the analyses of src/seed_analysis_code.py
othersOfSeedAnalysis ==
  <<data_file, feed, collect, program, master_file, raw_games, games_df,
    connection_active, connection, current_game>>

\* load_data() called by an analysis that finds self.games empty
LoadData ==
  /\ program = "seed_analysis"
  /\ ~Collecting
  /\ games = <<>>
  /\ games' = GamesAfterLoad
  /\ loaded' = LoadReturns
  /\ UNCHANGED <<calls, hash_candidates, time_patterns, bit_patterns, files,
                 analyses>>
  /\ UNCHANGED othersOfSeedAnalysis

\* where a call that got past the guard ended: at return found_patterns,
\* or in the generation loop (AttributeError, line 265) or the validation
\* loop (AttributeError, line 398), which nothing in the method catches
SearchStage(events, groups) ==
  IF GenerationRaised(events) THEN "generation"
  ELSE IF groups # <<>> /\ groups[Len(groups)].raised THEN "validation"
  ELSE "return"

\* what brute_force_seed_generation(sample_size) did, events being the test
\* inputs it hashed, matched those that appended a pattern and groups the
\* pattern groups it validated: found_patterns and validation_results are
\* the two locals as the call left them, interrupted is the group the
\* validation loop was in when it raised
SearchRecord(all_games, sample_size, sample_pos, events, matched, groups) ==
  [ status |-> IF SearchStage(events, groups) = "return"
               THEN "returned patterns" ELSE "raised AttributeError",
    stage |-> SearchStage(events, groups),
    games |-> all_games,
    sample_size |-> sample_size,
    sample_pos |-> {sample_pos[k] : k \in 1..Len(sample_pos)},
    log |-> GenerationLog(events, sample_pos),
    orderings |-> [k \in 1..Len(matched) |-> matched[k].ordering],
    found_patterns |-> FoundOf(matched),
    validation_results |-> ValidationResults(groups),
    interrupted |-> SelectSeq(groups, LAMBDA result : result.raised) ]

\* what brute_force_seed_generation(sample_size) does once games is loaded:
\* with status "returned patterns" found_patterns is what it returns, the
\* other fields are what it did; validation is not reached when the
\* generation loop raised
BruteForceResult(all_games, sample_size) ==
  CHOOSE result \in
    UNION { UNION { UNION { { SearchRecord(all_games, sample_size, sample_pos,
                                           events, matched, groups) :
                                groups \in
                                  { IF GenerationRaised(events) THEN <<>>
                                    ELSE ValidatedGroups(matched, all_games,
                                                         sample_size) } } :
                            matched \in {MatchedOf(events)} } :
                    events \in {HashEvents(At(all_games, sample_pos))} } :
            sample_pos \in {SamplePositions(all_games, sample_size)} } : TRUE

\* a body that keeps the sample in self.games
GamesCutToSample(all_games, sample_size) ==
  At(all_games, SamplePositions(all_games, sample_size))

\* self.games after the search, however it ended: sample and
\* validation_games are slices, new lists, and self.games is never assigned
GamesAfterSearch(all_games, sample_size) == all_games

\* whether one more analysis may be called
MayRun == Len(calls) + Len(analyses) < MaxRuns

\* brute_force_seed_generation(sample_size)
BruteForce(sample_size) ==
  /\ program = "seed_analysis"
  /\ ~Collecting
  /\ MayRun
  /\ IF games # <<>>
     THEN /\ calls' = Append(calls, BruteForceResult(games, sample_size))
          /\ games' = GamesAfterSearch(games, sample_size)
          /\ UNCHANGED loaded
     ELSE /\ loaded' = LoadReturns
          /\ IF LoadSucceeds
             THEN /\ calls' = Append(calls,
                                BruteForceResult(GamesAfterLoad, sample_size))
                  /\ games' = GamesAfterSearch(GamesAfterLoad, sample_size)
             ELSE /\ calls' = Append(calls, ReturnedNone(sample_size))
                  /\ games' = GamesAfterLoad
  /\ UNCHANGED <<hash_candidates, time_patterns, bit_patterns, files, analyses>>
  /\ UNCHANGED othersOfSeedAnalysis

Next ==
  \/ LoadData
  \/ \E sample_size \in 0..MaxSample : BruteForce(sample_size)

Spec == Init /\ [][Next]_vars

\* the last call of brute_force_seed_generation, when it returned a list
Called == calls # <<>> /\ calls[Len(calls)].status = "returned patterns"

\* the last call, when it got past the guard, however it ended
Searched == calls # <<>> /\ calls[Len(calls)].status # "returned None"

bf == calls[Len(calls)]

(***************************************************************************)
(* Helpers of the properties.                                              *)
(***************************************************************************)
\* the time encodings computed from the timestamp (every one but game_id)
TimestampKeys == SelectSeq(TimeKeys, LAMBDA t : t # "game_id")

Range(seq) == {seq[k] : k \in 1..Len(seq)}

\* whether a digest matches a seed exactly, or by its first 16 characters
DigestMatches(seed, digest) == seed = digest \/ StartsWith(seed, Prefix16(digest))

\* the validation records of one result that were looked at
CountedRecords(result) == {r \in Range(result.records) : r.counted}

(***************************************************************************)
(* C1.  Positive control: when the seed of a pooled record of the sample   *)
(* is the digest of encode(timestamp) + salt for a time encoding, secret,  *)
(* salt template and algorithm of the tables, the call returns a list and  *)
(* the list holds a hypothesis naming that encoding, secret, template and  *)
(* algorithm with match kind exact.                                        *)
(***************************************************************************)
C1_PositiveControl ==
  Searched =>
    \A pos \in bf.sample_pos :
      InPool(bf.games[pos]) =>
        \A t \in Range(TimestampKeys), secret \in Range(common_secrets),
           salt_format \in Range(salt_formats), hash_type \in Range(HashTypes) :
          LET game == bf.games[pos]
              input == TimeValue(t, game.timestamp, game)
                         \o Format(salt_format, secret)
          IN  game.serverSeed = HexDigest(hash_type, Encode(input)) =>
                /\ bf.status = "returned patterns"
                /\ \E k \in 1..Len(bf.found_patterns) :
                     LET p == bf.found_patterns[k]
                     IN  /\ p.time_format = t
                         /\ p.secret = secret
                         /\ p.salt_format = salt_format
                         /\ p.hash_type = hash_type
                         /\ p.match_type = "exact"
                         /\ p.seed = game.serverSeed

(***************************************************************************)
(* C2.  A hypothesis is recorded on any match: for every pooled record,    *)
(* time encoding that was hashed, secret, salt template, input ordering    *)
(* and algorithm, when that algorithm's digest of the test input equals    *)
(* the seed or shares its first 16 characters with it, the call returns a  *)
(* list that holds a hypothesis for that record and input naming that      *)
(* algorithm.                                                              *)
(***************************************************************************)
C2_EveryMatchRecorded ==
  Searched =>
    \A e \in bf.log, secret \in Range(common_secrets),
       salt_format \in Range(salt_formats), ordering \in Range(Orderings),
       hash_type \in Range(HashTypes) :
      LET seed == bf.games[e.pos].serverSeed
          input == TestInput(ordering, e.time_val, Format(salt_format, secret))
      IN  DigestMatches(seed, HexDigest(hash_type, Encode(input))) =>
            /\ bf.status = "returned patterns"
            /\ \E k \in 1..Len(bf.found_patterns) :
                 LET p == bf.found_patterns[k]
                 IN  /\ p.index = e.index
                     /\ p.time_format = e.time_format
                     /\ p.secret = secret
                     /\ p.salt_format = salt_format
                     /\ p.input = input
                     /\ p.hash_type = hash_type

(***************************************************************************)
(* C3.  Validation re-tests a hypothesis under the ordering that produced  *)
(* it: every input hashed for a validation record is built, with the       *)
(* ordering the hypothesis was found with, from the record's own time      *)
(* value and the hypothesis's salt.  The code recognises the ordering by   *)
(* looking for the words TimeSecret and SecretTime in the hashed input,    *)
(* which holds neither, so it re-hashes the salt alone.                    *)
(***************************************************************************)
C3_SameOrderingRetested ==
  Called =>
    \A n \in 1..Len(bf.validation_results) :
      LET result == bf.validation_results[n]
          salt == Format(result.key[3], result.key[2])
      IN  \A r \in CountedRecords(result) :
            \A k \in 1..Len(r.tests) :
              r.tests[k].input = TestInput(r.tests[k].ordering, r.time_val, salt)

(***************************************************************************)
(* C4.  The generation sample and the validation slice never overlap: no   *)
(* position of games is used both for generation and for validation, and   *)
(* every validation position comes after every generation position,        *)
(* whether the call returns or raises.                                     *)
(***************************************************************************)
\* the positions of games whose records generation read
GenerationPositions(call) ==
  call.sample_pos \cup {e.pos : e \in call.log} \cup {e.gid_pos : e \in call.log}

\* the pattern groups validation went through: those it stored a result
\* for and the one it raised in
GroupsGoneThrough(call) == call.validation_results \o call.interrupted

\* the positions of games that validation iterated over
ValidatedPositions(call) ==
  UNION {{r.pos : r \in Range(GroupsGoneThrough(call)[n].records)} :
           n \in 1..Len(GroupsGoneThrough(call))}

C4_SlicesDisjoint ==
  Searched =>
    /\ GenerationPositions(bf) \cap ValidatedPositions(bf) = {}
    /\ \A g \in GenerationPositions(bf), v \in ValidatedPositions(bf) : g < v

\* a call that generated from two records and validated on a third, whose
\* seed is None
C4_Witness ==
  /\ Searched
  /\ Cardinality(GenerationPositions(bf)) = 2
  /\ ValidatedPositions(bf) = {3}
  /\ bf.games[3] = RecNone

(***************************************************************************)
(* C5.  When no record of the validation slice has both timestamp and      *)
(* serverSeed, the success rate of every hypothesis is reported as         *)
(* undefined.  The code reports it as 0.                                   *)
(***************************************************************************)
C5_UndefinedRateOnEmptySlice ==
  Called =>
    \A n \in 1..Len(bf.validation_results) :
      bf.validation_results[n].total = 0 =>
        bf.validation_results[n].success_rate.kind = "undefined"

(***************************************************************************)
(* C6.  The validation match rate of a hypothesis is the number of         *)
(* validation records that satisfy the hypothesis's match condition (its   *)
(* encoding, salt, ordering, algorithm and match kind) over the number of  *)
(* validation records that have both timestamp and serverSeed.  It fails   *)
(* with C3: the code counts the records whose seed matches the digest of   *)
(* the salt alone.                                                         *)
(***************************************************************************)
\* whether a record satisfies the match condition of key under an ordering
Satisfies(game, key, ordering) ==
  LET time_val == TimeValue(key[1], game.timestamp, game)
      input == TestInput(ordering, time_val, Format(key[3], key[2]))
  IN  /\ Hashed(time_val)
      /\ IsMatch(key[5], game.serverSeed, HexDigest(key[4], Encode(input)))

\* the orderings the hypotheses of a key were found with
OrderingsOf(call, key) ==
  {call.orderings[k] : k \in {j \in 1..Len(call.found_patterns) :
                               PatternKey(call.found_patterns[j]) = key}}

C6_RateIsMatchesOverValid ==
  Called =>
    \A n \in 1..Len(bf.validation_results) :
      LET result == bf.validation_results[n]
          slice == {r.pos : r \in Range(result.records)}
          valid == {pos \in slice : InPool(bf.games[pos])}
          good == {pos \in valid :
                     \E o \in OrderingsOf(bf, result.key) :
                       Satisfies(bf.games[pos], result.key, o)}
      IN  valid # {} =>
            result.success_rate =
              [kind |-> "value", num |-> Cardinality(good),
               den |-> Cardinality(valid)]

(***************************************************************************)
(* C7.  Exact and prefix matches are kept apart.  A hypothesis has kind    *)
(* exact only if the digest of its input equals the seed, and kind         *)
(* partial_16 only if the digest's first 16 characters begin the seed and  *)
(* the digest differs from the seed.  Validation has one result per key,   *)
(* the match kind is part of the key, and a validation record is counted   *)
(* as a match of a group only when a digest hashed for it matches the      *)
(* seed under the group's own kind: equality for exact, the first 16       *)
(* characters without equality for partial_16.                             *)
(***************************************************************************)
C7_KindsKeptApart ==
  Called =>
    /\ \A k \in 1..Len(bf.found_patterns) :
         LET p == bf.found_patterns[k]
             digest == HexDigest(p.hash_type, Encode(p.input))
         IN  /\ p.match_type \in {"exact", "partial_16"}
             /\ p.match_type = "exact" => p.seed = digest
             /\ p.match_type = "partial_16" =>
                  StartsWith(p.seed, Prefix16(digest)) /\ p.seed # digest
    /\ \A n, m \in 1..Len(bf.validation_results) :
         bf.validation_results[n].key = bf.validation_results[m].key => n = m
    /\ \A k \in 1..Len(bf.found_patterns) :
         bf.validation_results # <<>> =>
           \E n \in 1..Len(bf.validation_results) :
             /\ bf.validation_results[n].key = PatternKey(bf.found_patterns[k])
             /\ bf.validation_results[n].key[5] = bf.found_patterns[k].match_type
    /\ \A n \in 1..Len(bf.validation_results) :
         LET result == bf.validation_results[n]
             own(seed, digest) ==
               IF result.key[5] = "exact" THEN seed = digest
               ELSE StartsWith(seed, Prefix16(digest)) /\ seed # digest
         IN  /\ result.matches =
                  Cardinality({r \in CountedRecords(result) : r.matched})
             /\ \A r \in CountedRecords(result) :
                  r.matched =>
                    \E k \in 1..Len(r.tests) :
                      own(bf.games[r.pos].serverSeed, r.tests[k].hash_value)

(***************************************************************************)
(* C8.  A time encoding whose value is the empty string is skipped and     *)
(* never hashed.  In generation no input is hashed and no hypothesis is    *)
(* recorded for that (record, encoding) pair, while every encoding of the  *)
(* timestamp is still hashed for every pooled record; in validation no     *)
(* input is hashed for a record whose time value is empty, and the other   *)
(* records are still tested.                                               *)
(***************************************************************************)
C8_EmptyEncodingSkipped ==
  Searched =>
    /\ \A e \in bf.log : e.time_val # <<>>
    /\ \A k \in 1..Len(bf.found_patterns) :
         \E e \in bf.log : /\ e.index = bf.found_patterns[k].index
                           /\ e.time_format = bf.found_patterns[k].time_format
    /\ \A pos \in bf.sample_pos :
         InPool(bf.games[pos]) =>
           \A t \in Range(TimestampKeys) :
             \E e \in bf.log : e.pos = pos /\ e.time_format = t
    /\ \A n \in 1..Len(GroupsGoneThrough(bf)) :
         LET result == GroupsGoneThrough(bf)[n]
         IN  /\ \A r \in CountedRecords(result) :
                  /\ r.time_val = <<>> => r.tests = <<>> /\ ~r.matched
                  /\ r.time_val # <<>> => r.tests # <<>>
             /\ {r.pos : r \in Range(result.records)}
                  = Range(ValidationPositions(bf.games, bf.sample_size))

(***************************************************************************)
(* C9.  A record takes part in the search only if it supplies gameId,      *)
(* timestamp and serverSeed: a record of the sample that lacks one of the  *)
(* three contributes no hash input and no hypothesis.  The pool filter     *)
(* asks for timestamp and serverSeed only, and the gameId hashed is the    *)
(* one of the last record of the sample, pooled or not.                    *)
(***************************************************************************)
HasAllFields(game) ==
  {"gameId", "timestamp", "serverSeed"} \subseteq DOMAIN game

C9_OnlyCompleteRecordsSearched ==
  Called =>
    \A pos \in bf.sample_pos :
      ~HasAllFields(bf.games[pos]) =>
        /\ \A e \in bf.log :
             /\ e.pos # pos
             /\ e.time_format = "game_id" => e.gid_pos # pos
        /\ \A k \in 1..Len(bf.found_patterns) :
             \A e \in bf.log :
               e.index = bf.found_patterns[k].index => e.pos # pos

(***************************************************************************)
(* The other analyses of the seed analyzer (analyze_time_patterns,         *)
(* analyze_binary_patterns, test_game_id_pattern, run_quick_analysis) and  *)
(* run_full_analysis.  What an analysis computes with the statistics and   *)
(* plotting libraries is kept as the fact that it was computed; what is    *)
(* modelled is which records it reads, when it returns None, when it       *)
(* raises, what it stores in the object and which files it writes.         *)
(***************************************************************************)
\* range(min(256, len(binary_seeds[0])))
BitWindow == 256
\* if len(self.games) < 10
QuickMinGames == 10
\* self.brute_force_seed_generation(sample_size=20)
FullSampleSize == 20
\* max_seeds = min(100, len(binary_seeds))
HeatmapSeeds == 100

\* len(seed) * 4, the length of the binary string of a seed
BitsOf(seed) == Len(seed) * HexPerWord * 4

\* s.split(sep) for a one-character sep
RECURSIVE Split(_, _)
Split(s, sep) ==
  LET p == Find(s, <<sep>>)
  IN  IF p = 0 THEN <<s>>
      ELSE <<SubSeq(s, 1, p - 1)>> \o Split(SubSeq(s, p + 1, Len(s)), sep)

HexChars ==
  {DigitChars[i] : i \in 1..10} \cup {LowerChars[i] : i \in 1..6}
    \cup {UpperChars[i] : i \in 1..6}

\* the characters int() strips from both ends of its argument: the blank,
\* tab, line feed, carriage return, form feed, vertical tab (0x0B), next
\* line (0x85) and no-break space (0xA0); the information separators
\* 0x1C-0x1F, blanks of str.strip(), are not among them.  Text of the model
\* has no characters beyond 0xFF
BlankChars == {" ", "\t", "\n", "\r", "\f", "", "", " "}

\* s.strip() as int() does it
RECURSIVE Strip(_)
Strip(s) ==
  IF s = <<>> THEN s
  ELSE IF s[1] \in BlankChars THEN Strip(Tail(s))
  ELSE IF s[Len(s)] \in BlankChars THEN Strip(SubSeq(s, 1, Len(s) - 1))
  ELSE s

\* the digits of an integer literal: hex digits, single underscores between
HexDigitsOk(v) ==
  /\ v # <<>>
  /\ v[1] \in HexChars
  /\ v[Len(v)] \in HexChars
  /\ \A i \in 1..Len(v) : v[i] \in HexChars \cup {"_"}
  /\ \A i \in 1..(Len(v) - 1) : ~(v[i] = "_" /\ v[i + 1] = "_")

\* whether int(s, 16) returns: blanks around, a sign, a 0x or 0X prefix
\* (and one underscore after it) are accepted before the digits
IsHexInt(s) ==
  LET t == Strip(s)
      u == IF t # <<>> /\ t[1] \in {"+", "-"} THEN Tail(t) ELSE t
      r == IF Len(u) >= 2 /\ u[1] = "0" /\ u[2] \in {"x", "X"}
           THEN SubSeq(u, 3, Len(u)) ELSE <<>>
      v == IF Len(u) >= 2 /\ u[1] = "0" /\ u[2] \in {"x", "X"}
           THEN (IF r # <<>> /\ r[1] = "_" THEN Tail(r) ELSE r)
           ELSE u
  IN  HexDigitsOk(v)

\* whether binary[bit_pos] / binary_seeds[i][j] runs past the end of a seed
\* shorter than the first one
ShortSeed(seeds) ==
  \E k \in 1..Len(seeds) : BitsOf(seeds[k]) < Min(BitWindow, BitsOf(seeds[1]))

\* the seeds the heat map draws: binary_seeds[i] for i in range(max_seeds)
HeatmapRows(seeds) == SubSeq(seeds, 1, Min(HeatmapSeeds, Len(seeds)))

\* the running state of an analysis: the object, the files, the outcome of
\* the phases run so far and whether one of them raised
StageOf(g) ==
  [ games |-> g, loaded |-> loaded, time_patterns |-> time_patterns,
    bit_patterns |-> bit_patterns, files |-> files, phases |-> <<>>,
    raised |-> FALSE, brute_force |-> <<>> ]

\* writing a file replaces what it held
WriteFile(fs, name, content) ==
  {f \in fs : f.name # name} \cup {[name |-> name, content |-> content]}

Image == [kind |-> "image"]

\* "if not self.games: if not self.load_data(): return": the stage after
\* the guard, and whether the analysis returned there
AfterGuard(st) ==
  IF st.games # <<>> THEN st
  ELSE [st EXCEPT !.games = GamesAfterLoadOf(st.games), !.loaded = LoadReturns]

StoppedAtGuard(st) == st.games = <<>> /\ ~LoadSucceeds

Outcome(st, name, outcome) ==
  [st EXCEPT !.phases = Append(@, [name |-> name, outcome |-> outcome]),
             !.raised = (outcome = "raised")]

\* the hashes of the time strings of one pooled record that match its seed
\* (lines 731-769)
SeedTimePatterns(pool) ==
  Flatten([i \in 1..Len(pool) |->
    LET keys == <<"epoch", "epoch_ms", "date", "time", "datetime", "game_id">>
        seed == pool[i].serverSeed
        one(k) ==
          LET bytes == Encode(TimeValue(keys[k], pool[i].timestamp, pool[i]))
              md5 == HexDigest("md5", bytes)
              sha1 == HexDigest("sha1", bytes)
              sha256 == HexDigest("sha256", bytes)
              entry(hash_type, match_type) ==
                <<[index |-> i - 1, time_format |-> keys[k],
                   hash_type |-> hash_type, match_type |-> match_type]>>
          IN  IF seed = md5 THEN entry("md5", "full")
              ELSE IF seed = sha1 THEN entry("sha1", "full")
              ELSE IF seed = sha256 THEN entry("sha256", "full")
              ELSE IF StartsWith(seed, Prefix16(md5)) THEN entry("md5", "partial")
              ELSE IF StartsWith(seed, Prefix16(sha1)) THEN entry("sha1", "partial")
              ELSE IF StartsWith(seed, Prefix16(sha256))
                   THEN entry("sha256", "partial")
              ELSE <<>>
    IN  Flatten([k \in 1..Len(keys) |-> one(k)])])

\* the least number of seeds for which chisquare([zeros, ones]) can give
\* p < 0.05: the statistic is (zeros - ones)^2 / n, at most n, and p < 0.05
\* needs more than 3.84
MinSignificant == 4

\* analyze_time_patterns(); sig_bits is whether some bit position of the
\* seeds is found significant, when there are seeds enough for that.  It
\* raises on a pooled record without gameId (line 688), on a seed that is
\* None (seed.startswith, line 761), on an empty seed (int('', 16), line
\* 774), on an empty pool (binary_seeds[0], line 779) and on a seed shorter
\* than the first (binary[bit_pos], line 780), each before anything is
\* stored or drawn
PhaseTime(st, sig_bits) ==
  IF st.raised THEN st
  ELSE IF StoppedAtGuard(st) THEN Outcome(AfterGuard(st), "time_patterns", "None")
  ELSE
    LET in == AfterGuard(st)
        pool == SelectSeq(in.games, InPool)
        seeds == [k \in 1..Len(pool) |-> pool[k].serverSeed]
    IN  IF \/ \E k \in 1..Len(pool) : "gameId" \notin DOMAIN pool[k]
           \/ \E k \in 1..Len(seeds) : seeds[k] = NoneSeed
           \/ \E k \in 1..Len(seeds) : seeds[k] = <<>>
           \/ pool = <<>>
           \/ ShortSeed(seeds)
        THEN Outcome(in, "time_patterns", "raised")
        ELSE Outcome(
               [in EXCEPT
                  !.time_patterns =
                     [stored |-> TRUE, analyzed |-> Len(pool),
                      seed_time_patterns |-> SeedTimePatterns(pool)],
                  !.files =
                     IF sig_bits /\ Len(pool) >= MinSignificant
                     THEN WriteFile(WriteFile(@, "time_differences.png", Image),
                                    "bit_patterns.png", Image)
                     ELSE WriteFile(@, "time_differences.png", Image)],
               "time_patterns", "returned")

\* analyze_binary_patterns(); runs_ok is whether binom_test accepts the
\* run counts of the seeds (it raises when p = expected / len(seeds) > 1).
\* Only the heat map indexes into the seeds (binary_seeds[i][j], for the
\* first max_seeds of them); the entropy, autocorrelation and run loops go
\* over each seed at its own length.  int(seed, 16) of line 888 raises
\* TypeError on a seed that is None and ValueError on an empty one
PhaseBinary(st, runs_ok) ==
  IF st.raised THEN st
  ELSE IF StoppedAtGuard(st) THEN Outcome(AfterGuard(st), "binary_patterns", "None")
  ELSE
    LET in == AfterGuard(st)
        with_seed == SelectSeq(in.games, LAMBDA game : "serverSeed" \in DOMAIN game)
        seeds == [k \in 1..Len(with_seed) |-> with_seed[k].serverSeed]
        plotted ==
          [in EXCEPT !.files = WriteFile(WriteFile(@, "binary_heatmap.png", Image),
                                         "autocorrelation.png", Image)]
    IN  IF \/ \E k \in 1..Len(seeds) : seeds[k] \in {NoneSeed, <<>>}
           \/ seeds = <<>>
           \/ ShortSeed(HeatmapRows(seeds))
        THEN Outcome(in, "binary_patterns", "raised")
        ELSE IF ~runs_ok THEN Outcome(plotted, "binary_patterns", "raised")
        ELSE Outcome([plotted EXCEPT
                        !.bit_patterns = [stored |-> TRUE, analyzed |-> Len(seeds)]],
                     "binary_patterns", "returned")

\* brute_force_seed_generation(sample_size) as a phase; search is what the
\* search does on the games the analysis started with or loaded.  When the
\* search raises, results['brute_force'] is not assigned
PhaseBrute(st, sample_size, search) ==
  IF st.raised THEN st
  ELSE IF StoppedAtGuard(st) THEN Outcome(AfterGuard(st), "brute_force", "None")
  ELSE
    LET in == AfterGuard(st)
        result == IF search.games = in.games /\ search.sample_size = sample_size
                  THEN search
                  ELSE BruteForceResult(in.games, sample_size)
    IN  IF result.status = "raised AttributeError"
        THEN Outcome(in, "brute_force", "raised")
        ELSE Outcome([in EXCEPT !.brute_force = <<result>>],
                     "brute_force", "returned")

\* whether a record adds a pair to time_correlation (lines 499-511)
Correlated(game) ==
  /\ "gameId" \in DOMAIN game
  /\ "timestamp" \in DOMAIN game
  /\ Contains(game.gameId, <<"-">>)
  /\ IsHexInt(Split(game.gameId, "-")[2])

\* test_game_id_pattern(): pearsonr is not imported, so the call of line 521
\* raises NameError whenever time_correlation is not empty
PhaseGameId(st) ==
  IF st.raised THEN st
  ELSE IF StoppedAtGuard(st) THEN Outcome(AfterGuard(st), "game_id_patterns", "None")
  ELSE
    LET in == AfterGuard(st)
    IN  IF \E k \in 1..Len(in.games) : Correlated(in.games[k])
        THEN Outcome(in, "game_id_patterns", "raised")
        ELSE Outcome(in, "game_id_patterns", "returned")

\* json.dump(results, f): the document of a full analysis
ResultsDocument(st) ==
  [ kind |-> "json",
    keys |-> [k \in 1..Len(st.phases) |-> st.phases[k].name],
    returned |-> [k \in 1..Len(st.phases) |-> st.phases[k].outcome],
    brute_force |->
      IF st.brute_force = <<>> THEN <<>> ELSE st.brute_force[1].found_patterns ]

\* the four phases of run_full_analysis in order; an exception of a phase
\* is not caught, so the phases after it are not run
FullPhases(st, sig_bits, runs_ok, search) ==
  CHOOSE last \in
    { PhaseGameId(third) : third \in
      { PhaseBrute(second, FullSampleSize, search) : second \in
        { PhaseBinary(first, runs_ok) : first \in
          { PhaseTime(entry, sig_bits) : entry \in {st} } } } } : TRUE

\* the entry of the history for an analysis that went through the stages
FullEntry(st) ==
  [ name |-> "run_full_analysis",
    outcome |-> IF st.raised THEN "raised" ELSE "returned",
    phases |-> st.phases,
    brute_force |-> st.brute_force ]

\* run_full_analysis()
RunFullAnalysis ==
  /\ program = "seed_analysis"
  /\ ~Collecting
  /\ MayRun
  /\ \E search \in {BruteForceResult(AfterGuard(StageOf(games)).games,
                                      FullSampleSize)} :
     \E sig_bits, runs_ok \in BOOLEAN :
     \E st \in {FullPhases(StageOf(games), sig_bits, runs_ok, search)} :
           /\ games' = st.games
           /\ loaded' = st.loaded
           /\ time_patterns' = st.time_patterns
           /\ bit_patterns' = st.bit_patterns
           /\ files' = IF st.raised THEN st.files
                       ELSE WriteFile(st.files, "seed_analysis_results.json",
                                      ResultsDocument(st))
           /\ analyses' = Append(analyses, FullEntry(st))
  /\ UNCHANGED <<calls, hash_candidates>>
  /\ UNCHANGED othersOfSeedAnalysis

\* run_quick_analysis() on games g: it returns at the guard of lines
\* 160-162, or it slices the last 50 games (line 165) and raises NameError
\* at "for game in sample" (line 171), sample being bound nowhere; it
\* appends nothing to hash_candidates
QuickResult(g) ==
  IF Len(g) < QuickMinGames
  THEN [outcome |-> "too few games"]
  ELSE [outcome |-> "raised"]

\* run_quick_analysis() called on its own
QuickAnalysis ==
  /\ program = "seed_analysis"
  /\ ~Collecting
  /\ MayRun
  /\ \E r \in {QuickResult(games)} :
         analyses' = Append(analyses,
                       [name |-> "run_quick_analysis", outcome |-> r.outcome])
  /\ UNCHANGED <<games, calls, loaded, time_patterns, bit_patterns, files,
                 hash_candidates>>
  /\ UNCHANGED othersOfSeedAnalysis

(***************************************************************************)
(* The data analyzer (analysis_tools.py).  A line of all-games.jsonl is a  *)
(* game object, a JSON value that is not an object, or text that is not    *)
(* JSON.  A game object is kept by the fields the analyses read; its       *)
(* recordingStart and recordingEnd are the text of a date, "" (the default *)
(* of a missing field: pd.to_datetime gives NaT) or "unparsable" (text     *)
(* that pd.to_datetime rejects).                                           *)
(***************************************************************************)
\* if len(analysis_df) < 10
CrossGameMinRows == 10
\* len(self.games_df) < 100
ModelMinGames == 100
\* sequence_length = 5
SequenceLength == 5
\* if len(features) < 50
ModelMinSamples == 50
\* analysis_df['prev_peak'] >= 50
HighPeak == 50

\* a JSON value that is not an object: game.get raises AttributeError
NotAnObject == [not_an_object |-> TRUE]

IsGameObject(line) == "gameId" \in DOMAIN line

\* the lines parsed when reading stops at the first one that raises
ParsedUntilMalformed(lines) == ParsedPrefix(lines)

\* json.loads(line.strip()) of every line, the ones that raise left out
ParsedLines(lines) == SelectSeq(lines, LAMBDA line : ~IsMalformed(line))

\* the rows of create_analysis_dataframe(games): one per game whose
\* extraction does not raise, game_number being its position in games
AnalysisRows(parsed) ==
  LET numbered == [k \in 1..Len(parsed) |-> [i |-> k - 1, game |-> parsed[k]]]
      kept == SelectSeq(numbered, LAMBDA e : IsGameObject(e.game))
  IN  [n \in 1..Len(kept) |->
         LET game == kept[n].game
         IN  [ game_number |-> kept[n].i + 1,
               game_id |-> game.gameId,
               recording_start |-> game.recordingStart,
               recording_end |-> game.recordingEnd,
               peak_multiplier |-> game.peakMultiplier,
               is_instarug |-> game.isInstarug,
               final_tick |-> game.finalTick,
               duration_seconds |-> game.duration ]]

\* whether the conversions after pd.DataFrame(analysis_data) raise: no row
\* gives a frame without columns (KeyError), and pd.to_datetime rejects
\* text that is not a date
FrameRaises(rows) ==
  \/ rows = <<>>
  \/ \E k \in 1..Len(rows) :
       "unparsable" \in {rows[k].recording_start, rows[k].recording_end}

\* load_collected_data(): what it returns or that it raised, and the
\* object after it
LoadCollected(raw, df) ==
  IF ~master_file.exists
  THEN [outcome |-> "False", raw_games |-> raw, games_df |-> df]
  ELSE
    LET parsed == ParsedLines(master_file.lines)
        rows == AnalysisRows(parsed)
    IN  IF FrameRaises(rows)
        THEN [outcome |-> "raised", raw_games |-> parsed, games_df |-> df]
        ELSE [outcome |-> "True", raw_games |-> parsed,
              games_df |-> [loaded |-> TRUE, rows |-> rows]]

\* whether dropna() keeps row k of the lagged frame: the first row has no
\* prev_peak, the last no next_is_instarug, a row without recording_start
\* or recording_end has NaT, and a peak of 0 is in no bin of peak_category
CompleteLagged(rows, k) ==
  /\ 1 < k
  /\ k < Len(rows)
  /\ rows[k].recording_start # ""
  /\ rows[k].recording_end # ""
  /\ rows[k].peak_multiplier > 0

\* analysis_df: the pairs the cross-game analysis is computed over
LaggedRows(rows) ==
  LET shifted ==
        [k \in 1..Len(rows) |->
           [ k |-> k, game_number |-> rows[k].game_number,
             prev_peak |-> IF k > 1 THEN rows[k - 1].peak_multiplier ELSE 0,
             next_is_instarug |->
               IF k < Len(rows) THEN rows[k + 1].is_instarug ELSE FALSE ]]
      kept == SelectSeq(shifted, LAMBDA e : CompleteLagged(rows, e.k))
  IN  [n \in 1..Len(kept) |->
         [ game_number |-> kept[n].game_number,
           prev_peak |-> kept[n].prev_peak,
           next_is_instarug |-> kept[n].next_is_instarug ]]

\* whether chi2_contingency raises: it does when an expected frequency is
\* zero, that is when both groups are not empty and the following games
\* are all instarugs or all not
ContingencyRaises(lagged) ==
  LET high == {n \in 1..Len(lagged) : lagged[n].prev_peak >= HighPeak}
      other == {n \in 1..Len(lagged) : lagged[n].prev_peak < HighPeak}
      rugs == {n \in 1..Len(lagged) : lagged[n].next_is_instarug}
  IN  /\ high # {}
      /\ other # {}
      /\ rugs = {} \/ rugs = 1..Len(lagged)

\* a frame cut to the rows that have a game before and a game after them
FrameCutToLagged(df) ==
  [loaded |-> df.loaded, rows |-> SubSeq(df.rows, 2, Len(df.rows) - 1)]

\* the frame the cross-game analysis leaves in the object: it works on
\* self.games_df.copy()
FrameAfterCrossGame(df) == df

\* analyze_cross_game_patterns()
CrossGame(df) ==
  IF ~df.loaded THEN [outcome |-> "None: no data", games_df |-> df]
  ELSE
    LET lagged == LaggedRows(df.rows)
    IN  [ outcome |->
            IF Len(lagged) < CrossGameMinRows THEN "None: insufficient data"
            ELSE IF ContingencyRaises(lagged) THEN "raised"
            ELSE "returned",
          games_df |-> FrameAfterCrossGame(df) ]

\* 1 if flag else 0
ZeroOne(flag) == IF flag THEN 1 ELSE 0

\* the four values build_prediction_model takes from the row at position
\* game_idx (counted from 0)
GameFeatures(rows, game_idx) ==
  << rows[game_idx + 1].peak_multiplier, rows[game_idx + 1].final_tick,
     ZeroOne(rows[game_idx + 1].is_instarug),
     rows[game_idx + 1].duration_seconds >>

\* sequence_features of position i, from the j-th game of the sequence on
RECURSIVE SequenceFeatures(_, _, _)
SequenceFeatures(rows, i, j) ==
  IF j >= SequenceLength THEN <<>>
  ELSE GameFeatures(rows, i - SequenceLength + j)
         \o SequenceFeatures(rows, i, j + 1)

\* samples whose sequence ends with the game that is their target
SamplesWithTarget(rows) ==
  [ n \in 1..(Len(rows) - SequenceLength) |->
      [ features |-> SequenceFeatures(rows, SequenceLength + n, 0),
        target |-> ZeroOne(rows[SequenceLength + n].is_instarug) ] ]

\* features and targets, sample by sample: one for every position i from
\* sequence_length to len(df) - 1
ModelSamples(rows) ==
  [ n \in 1..(Len(rows) - SequenceLength) |->
      [ features |-> SequenceFeatures(rows, SequenceLength + n - 1, 0),
        target |-> ZeroOne(rows[SequenceLength + n].is_instarug) ] ]

\* the frame build_prediction_model leaves in the object: it works on
\* self.games_df.copy()
FrameAfterModel(df) == df

\* build_prediction_model(); fits is whether the classifier and its report
\* are computed without an exception
BuildModel(df, fits) ==
  IF ~df.loaded \/ Len(df.rows) < ModelMinGames
  THEN [outcome |-> "None: insufficient data", games_df |-> df]
  ELSE [ outcome |->
           IF Len(ModelSamples(df.rows)) < ModelMinSamples
           THEN "None: insufficient data"
           ELSE IF fits THEN "returned" ELSE "raised",
         games_df |-> FrameAfterModel(df) ]

\* whether main() has run: its analyzer is local to it
MainRan == \E k \in 1..Len(analyses) : analyses[k].name = "main"

\* what is left alone by the methods of the data analyzer
othersOfDataAnalysis ==
  <<games, data_file, calls, loaded, current_game, connection_active,
    connection,
    hash_candidates, time_patterns, bit_patterns, feed, collect, program,
    master_file>>

\* a method of the data analyzer may be called
MethodCall ==
  /\ program = "analysis_tools"
  /\ ~MainRan
  /\ MayRun

\* analyzer.load_collected_data()
LoadCollectedData ==
  /\ MethodCall
  /\ \E r \in {LoadCollected(raw_games, games_df)} :
         /\ raw_games' = r.raw_games
         /\ games_df' = r.games_df
         /\ analyses' = Append(analyses,
                          [name |-> "load_collected_data", outcome |-> r.outcome])
  /\ UNCHANGED files
  /\ UNCHANGED othersOfDataAnalysis

\* analyzer.analyze_cross_game_patterns()
AnalyzeCrossGamePatterns ==
  /\ MethodCall
  /\ \E r \in {CrossGame(games_df)} :
         /\ games_df' = r.games_df
         /\ analyses' = Append(analyses,
                          [name |-> "analyze_cross_game_patterns",
                           outcome |-> r.outcome])
  /\ UNCHANGED <<raw_games, files>>
  /\ UNCHANGED othersOfDataAnalysis

\* analyzer.build_prediction_model()
BuildPredictionModel ==
  /\ MethodCall
  /\ \E fits \in BOOLEAN :
     \E r \in {BuildModel(games_df, fits)} :
           /\ games_df' = r.games_df
           /\ analyses' = Append(analyses,
                            [name |-> "build_prediction_model",
                             outcome |-> r.outcome])
  /\ UNCHANGED <<raw_games, files>>
  /\ UNCHANGED othersOfDataAnalysis

\* the command line flags of main
Flags ==
  {"load_data", "analyze_patterns", "verify_prng", "visualize", "build_model",
   "full_analysis"}

\* the analyses of main in the order of its if statements, each with the
\* flag that asks for it
MainSteps ==
  << [name |-> "analyze_basic_patterns", flag |-> "load_data"],
     [name |-> "analyze_cross_game_patterns", flag |-> "analyze_patterns"],
     [name |-> "verify_prng_system", flag |-> "verify_prng"],
     [name |-> "create_visualizations", flag |-> "visualize"],
     [name |-> "build_prediction_model", flag |-> "build_model"] >>

\* what one analysis of main does on a loaded frame, and the frame after
\* it; plots is whether create_visualizations runs without an exception of
\* the plotting library
StepResult(name, df, plots, fits) ==
  CASE name = "analyze_basic_patterns" -> [outcome |-> "returned", games_df |-> df]
    [] name = "analyze_cross_game_patterns" -> CrossGame(df)
    [] name = "verify_prng_system" -> [outcome |-> "returned", games_df |-> df]
    [] name = "create_visualizations" ->
         [outcome |-> IF plots THEN "returned" ELSE "raised", games_df |-> df]
    [] name = "build_prediction_model" -> BuildModel(df, fits)

\* the analyses main runs from step k on and the frame they leave: an
\* exception is not caught, so the steps after it are not run
RECURSIVE MainRuns(_, _, _, _, _)
MainRuns(k, flags, df, plots, fits) ==
  IF k > Len(MainSteps) THEN [ran |-> <<>>, games_df |-> df]
  ELSE IF ~(MainSteps[k].flag \in flags \/ "full_analysis" \in flags)
       THEN MainRuns(k + 1, flags, df, plots, fits)
  ELSE
    CHOOSE run \in
      { IF step.outcome = "raised"
        THEN [ ran |-> <<[name |-> MainSteps[k].name, outcome |-> step.outcome]>>,
               games_df |-> step.games_df ]
        ELSE CHOOSE all \in
               { [ ran |-> <<[name |-> MainSteps[k].name,
                              outcome |-> step.outcome]>> \o rest.ran,
                   games_df |-> rest.games_df ] :
                 rest \in {MainRuns(k + 1, flags, step.games_df, plots, fits)} } :
               TRUE :
        step \in {StepResult(MainSteps[k].name, df, plots, fits)} } : TRUE

\* main() with the flags given
Main(flags) ==
  /\ program = "analysis_tools"
  /\ analyses = <<>>
  /\ \E r \in {LoadCollected(<<>>, NoFrame)} :
     \E plots, fits \in BOOLEAN :
     \E run \in {IF r.outcome = "True"
                 THEN MainRuns(1, flags, r.games_df, plots, fits)
                 ELSE [ran |-> <<>>, games_df |-> r.games_df]} :
       LET ran == run.ran
           raised == \/ r.outcome = "raised"
                     \/ \E k \in 1..Len(ran) : ran[k].outcome = "raised"
       IN  /\ raw_games' = r.raw_games
           /\ games_df' = run.games_df
           /\ files' =
                IF \E k \in 1..Len(ran) :
                     /\ ran[k].name = "create_visualizations"
                     /\ ran[k].outcome = "returned"
                THEN WriteFile(files, "analysis/collection_analysis.png", Image)
                ELSE files
           /\ analyses' =
                <<[ name |-> "main", flags |-> flags, load |-> r.outcome,
                    ran |-> ran,
                    outcome |-> IF raised THEN "raised" ELSE "returned" ]>>
  /\ UNCHANGED othersOfDataAnalysis

(***************************************************************************)
(* The analyses of the two scripts on stored data.  A behaviour runs one   *)
(* of the scripts: the seed analyzer on the file at data_path, or the data *)
(* analyzer on all-games.jsonl.                                            *)
(***************************************************************************)
\* the short data files and master files hold at most MaxLines lines
MaxLines == 2

\* a gameId without '-': test_game_id_pattern finds no id part in it
GameIdPlain == <<"r", "7">>

\* sha256("20240102" + "rugs.fun_salt")
SeedPlain ==
  HexDigest("sha256",
    Encode(TimeValue("date", T2, <<>>) \o Format(AllSaltFormats[2], RugsFun)))

\* a complete record the four phases of a full analysis go through
RecPlain == [gameId |-> GameIdPlain, timestamp |-> T2, serverSeed |-> SeedPlain]

\* n records RecPlain
Repeated(n) == [k \in 1..n |-> RecPlain]

\* a record without a timestamp, its seed 256 bits long
RecUntimed == [gameId |-> GameIdPlain, serverSeed |-> SeedPlain]

\* a collection whose n-th record has a seed shorter than the others: the
\* records before it are untimed but for the last, a complete one
ShortSeedAt(n) ==
  [k \in 1..(n - 2) |-> RecUntimed] \o <<RecPlain, RecNoTime>>

\* a gameId whose id part is a hexadecimal literal with its prefix
GameIdHex ==
  <<"2", "0", "2", "4", "0", "1", "0", "1", "-", "0", "x", "1", "f">>

\* a complete record whose id part int(id_part, 16) reads as 31
RecHexId == [gameId |-> GameIdHex, timestamp |-> T2, serverSeed |-> SeedPlain]

\* a complete record whose seed is the empty string
RecEmptySeed == [gameId |-> GameIdPlain, timestamp |-> T2, serverSeed |-> <<>>]

AnalysisLines ==
  { RecPlain, RecExact, RecNoId, RecNoTime, RecHexId, RecNone, RecEmptySeed,
    Malformed }

\* the data files of the seed analyzer: short files of any lines, files of
\* records around the sizes the analyses ask for, a JSON document that is
\* or is not well formed, and no path
AnalysisDataFiles ==
  {[has_path |-> TRUE, jsonl |-> TRUE, records |-> g] :
     g \in UNION {[1..n -> AnalysisLines] : n \in 0..MaxLines}}
  \cup {[has_path |-> TRUE, jsonl |-> TRUE, records |-> Repeated(n)] :
          n \in {QuickMinGames - 1, QuickMinGames, FullSampleSize + 1}}
  \cup {[has_path |-> TRUE, jsonl |-> TRUE, records |-> ShortSeedAt(n)] :
          n \in {HeatmapSeeds, HeatmapSeeds + 1}}
  \cup {[has_path |-> TRUE, jsonl |-> FALSE, records |-> g] :
          g \in {<<RecPlain>>, <<RecPlain, Malformed>>}}
  \cup {[has_path |-> FALSE, jsonl |-> FALSE, records |-> <<>>]}

\* game objects of all-games.jsonl
Game(peak, instarug, start) ==
  [ gameId |-> GameIdA, recordingStart |-> start, recordingEnd |-> start,
    peakMultiplier |-> peak, isInstarug |-> instarug, finalTick |-> 10 * peak,
    duration |-> peak ]

GameDate == "2024-01-01T12:30:45"

MasterLines ==
  { Game(1, FALSE, GameDate), Game(60, TRUE, GameDate), Game(3, FALSE, ""),
    Game(3, TRUE, "unparsable"), NotAnObject, Malformed }

\* a file with a line that is not JSON and one that is not an object
\* between two games
MixedLines ==
  <<Game(1, FALSE, GameDate), Malformed, NotAnObject, Game(60, TRUE, GameDate)>>

\* the k-th game of a long collection: every fourth peak is high, every
\* third game an instarug
LongGame(k) ==
  Game(IF k % 4 = 0 THEN 60 ELSE 1 + (k % 3), k % 3 = 0, GameDate)

\* the k-th game of a collection without instarugs: every fourth peak is
\* high
CalmGame(k) == Game(IF k % 4 = 0 THEN 60 ELSE 2, FALSE, GameDate)

\* the master files: short files of any lines, collections around the sizes
\* the analyses ask for, a collection without instarugs, and no file
MasterFiles ==
  {[exists |-> TRUE, lines |-> g] :
     g \in UNION {[1..n -> MasterLines] : n \in 0..MaxLines}}
  \cup {[exists |-> TRUE, lines |-> MixedLines]}
  \cup {[exists |-> TRUE, lines |-> [k \in 1..n |-> LongGame(k)]] :
          n \in {CrossGameMinRows + 1, CrossGameMinRows + 2,
                 ModelMinGames - 1, ModelMinGames}}
  \cup {[exists |-> TRUE,
          lines |-> [k \in 1..(CrossGameMinRows + 2) |-> CalmGame(k)]]}
  \cup {NoMasterFile}

AnalysisInit ==
  /\ SeedAnalyzerConstructed
  /\ DataAnalyzerConstructed
  /\ NothingRun
  /\ feed = NoFeed
  /\ program \in {"seed_analysis", "analysis_tools"}
  /\ IF program = "seed_analysis"
     THEN data_file \in AnalysisDataFiles /\ master_file = NoMasterFile
     ELSE /\ data_file = [has_path |-> FALSE, jsonl |-> FALSE, records |-> <<>>]
          /\ master_file \in MasterFiles

AnalysisNext ==
  \/ LoadData
  \/ \E sample_size \in 0..MaxSample : BruteForce(sample_size)
  \/ RunFullAnalysis
  \/ QuickAnalysis
  \/ LoadCollectedData
  \/ AnalyzeCrossGamePatterns
  \/ BuildPredictionModel
  \/ \E flags \in SUBSET Flags : Main(flags)

AnalysisSpec == AnalysisInit /\ [][AnalysisNext]_vars

(***************************************************************************)
(* Live collection (collect_data, lines 53-121).  A call is a coroutine:   *)
(* it gives way to the other coroutines where it awaits the network, in    *)
(* websockets.connect (line 45) and in recv() (line 68), and nowhere else. *)
(* A step of the model is what one call does between two such points: the  *)
(* call up to its connect or its first recv(), the return of connect up to *)
(* the first recv(), the handling of one message up to the next recv() or  *)
(* to the end of the call, or a recv() that raises ConnectionClosed.       *)
(* Several calls may be in progress on one analyzer.  Connections are      *)
(* numbered in the order websockets.connect returns them.  A dictionary    *)
(* built for a round carries the number oid of the object, so that the     *)
(* same dictionary held twice can be told from two equal ones.             *)
(***************************************************************************)
\* if game_count % 10 == 0
SaveEvery == 10
\* if game_count % 50 == 0
QuickEvery == 50

\* datetime.datetime.now() when the clock of the feed shows c seconds
Now(c) ==
  [T2 EXCEPT !.hour = c \div 3600, !.minute = (c \div 60) % 60, !.second = c % 60]

\* md5("20240102"): the seed the feed reveals when a round ends
SeedOfDate == HexDigest("md5", Encode(TimeValue("date", T2, <<>>)))

\* a gameStateUpdate message with its state
Update(status, seed) ==
  [ kind |-> "gameStateUpdate", status |-> status, gameId |-> GameIdA,
    serverSeed |-> seed, peakMultiplier |-> 3, tick |-> 7 ]

\* a message that is not a gameStateUpdate: text that is not JSON
\* ("malformed"), a JSON number ("number": 'type' in data raises
\* TypeError), an object without type ("no type") or of another type
NotUpdate(kind) ==
  [ kind |-> kind, status |-> "", gameId |-> <<>>, serverSeed |-> NoneSeed,
    peakMultiplier |-> 0, tick |-> 0 ]

\* self.current_game = {...}: the dictionary of a round that started
NewGame(oid, msg, now) ==
  [oid |-> oid, gameId |-> msg.gameId, timestamp |-> now]

\* the dictionary after serverSeed, peakMultiplier and finalTick are set
Ended(game, msg) ==
  [ oid |-> game.oid, gameId |-> game.gameId, timestamp |-> game.timestamp,
    serverSeed |-> msg.serverSeed, peakMultiplier |-> msg.peakMultiplier,
    finalTick |-> msg.tick ]

\* a list after fields of the dictionary rec.oid were assigned: every entry
\* that is this dictionary shows them
Assigned(g, rec) == [k \in 1..Len(g) |-> IF g[k].oid = rec.oid THEN rec ELSE g[k]]

\* a list with rec stored at its head
StoredFirst(g, rec) == <<rec>> \o g

\* self.games.append(self.current_game)
Stored(g, rec) == Append(g, rec)

\* state.get('status') == 'playing' and not self.current_game
Starts(msg, cur) ==
  msg.kind = "gameStateUpdate" /\ msg.status = "playing" /\ ~cur.open

\* self.current_game and state.get('status') == 'rugged'
Ends(msg, cur) ==
  msg.kind = "gameStateUpdate" /\ msg.status = "rugged" /\ cur.open

\* the loop goes on one round past max_games
LoopContinuesAtMax(game_count, max_games) == game_count <= max_games

\* while game_count < max_games
LoopContinues(game_count, max_games) == game_count < max_games

\* f"seed_data_{game_count}.json" for the counts the model reaches
SeedDataName(game_count) ==
  << "seed_data_10.json", "seed_data_20.json", "seed_data_30.json",
     "seed_data_40.json", "seed_data_50.json" >>[game_count \div SaveEvery]

\* save_data(filename): json.dump(self.games, f)
SaveData(fs, filename, g) == WriteFile(fs, filename, [kind |-> "json", games |-> g])

\* await self.run_quick_analysis() inside the loop (line 112): the call is
\* made with 50 games or more in the list, so it gets past its guard
QuickDuringCollect(g) == QuickResult(g)

\* the feed before anything was sent
FeedAt(open) == [NoFeed EXCEPT !.open = open]

\* what collect_data leaves alone
othersOfCollect ==
  <<data_file, calls, loaded, time_patterns, bit_patterns, analyses, program,
    master_file, raw_games, games_df>>

\* a call of collect_data(max_games) as it starts: whether it is in
\* progress, where it waits ("connect", "recv", or "end" once it returned),
\* the connection its recv() was called on, its max_games and game_count,
\* the messages it received and the records it appended, the message it
\* received last, and how it ended
NewCall(max_games) ==
  [ running |-> TRUE, at |-> "connect", conn |-> 0, max_games |-> max_games,
    game_count |-> 0, received |-> 0, appended |-> 0,
    last |-> [kind |-> "none"], exit |-> "running" ]

\* a call that has returned
Returned(call, exit) ==
  [call EXCEPT !.running = FALSE, !.at = "end", !.exit = exit]

\* self.connection.recv() called by call k on connection c while another
\* call waits in recv() on c: the library raises (RuntimeError or
\* ConcurrencyError: "cannot call recv while another coroutine is already
\* waiting for the next message")
RecvRaises(k, c) ==
  \E j \in 1..Len(collect) :
    j # k /\ collect[j].at = "recv" /\ collect[j].conn = c

\* the loop test and the recv() after it, for call k with the connection c
\* self.connection names: the call waits in recv(), or it returns
AtLoopTest(call, k, c) ==
  IF ~LoopContinues(call.game_count, call.max_games)
  THEN Returned(call, "max_games")
  ELSE IF RecvRaises(k, c) THEN Returned(call, "error")
  ELSE [call EXCEPT !.at = "recv", !.conn = c]

\* the finally clause, when the call has returned
FinallySaved(call, fs, g) ==
  IF call.running THEN fs ELSE SaveData(fs, "final_seed_data.json", g)

\* collect_data(max_games) up to its first await: websockets.connect if
\* connection_active is False (lines 60-61, 45), else the first recv(); the
\* loop is not entered when max_games <= 0
StartCollect(max_games) ==
  /\ program = "seed_analysis"
  /\ \E call \in { IF ~connection_active THEN NewCall(max_games)
                    ELSE AtLoopTest(NewCall(max_games), Len(collect) + 1,
                                    connection) } :
       /\ collect' = Append(collect, call)
       /\ files' = IF call.at = "connect" THEN files
                   ELSE FinallySaved(call, files, games)
  /\ UNCHANGED <<games, current_game, hash_candidates, feed, connection_active,
                 connection>>
  /\ UNCHANGED othersOfCollect

\* websockets.connect returns to call k or raises (lines 45-51), and the
\* call goes on to its first recv(): a new connection is assigned to
\* self.connection and connection_active is set; when the server is not
\* there connect() returns False and the call returns (lines 62-63)
Connect(k) ==
  /\ collect[k].at = "connect"
  /\ IF feed.open
     THEN \E call \in {AtLoopTest(collect[k], k, connection + 1)} :
            /\ connection' = connection + 1
            /\ connection_active' = TRUE
            /\ collect' = [collect EXCEPT ![k] = call]
            /\ files' = FinallySaved(call, files, games)
     ELSE /\ collect' = [collect EXCEPT ![k] = Returned(@, "connect failed")]
          /\ UNCHANGED <<connection, connection_active, files>>
  /\ UNCHANGED <<games, current_game, hash_candidates, feed>>
  /\ UNCHANGED othersOfCollect

\* the body of the loop of call k for one message: the object and the files
\* after it, and whether the call goes on to the loop test ("running") or
\* ends with an exception ("error")
Received(k, msg) ==
  LET count == collect[k].game_count + 1
      same == [ games |-> games, current_game |-> current_game,
                created |-> feed.created, game_count |-> collect[k].game_count,
                appended |-> collect[k].appended, files |-> files,
                hash_candidates |-> hash_candidates, exit |-> "running" ]
  IN  IF msg.kind \in {"malformed", "number"}
      THEN [same EXCEPT !.exit = "error"]
      ELSE IF Starts(msg, current_game)
      THEN [same EXCEPT
              !.current_game =
                 [open |-> TRUE,
                  game |-> NewGame(feed.created + 1, msg, Now(feed.clock + 1))],
              !.created = feed.created + 1]
      ELSE IF Ends(msg, current_game)
      THEN
        LET rec == Ended(current_game.game, msg)
            stored == [same EXCEPT !.games = Stored(Assigned(games, rec), rec),
                                   !.appended = collect[k].appended + 1]
        IN  IF msg.serverSeed = NoneSeed
            THEN [stored EXCEPT !.current_game = [open |-> TRUE, game |-> rec],
                                !.exit = "error"]
            ELSE
              LET quick == IF count % QuickEvery = 0
                           THEN QuickDuringCollect(stored.games)
                           ELSE [outcome |-> "not run"]
              IN  [stored EXCEPT
                     !.current_game = NoGame,
                     !.game_count = count,
                     !.files = IF count % SaveEvery = 0
                               THEN SaveData(files, SeedDataName(count), stored.games)
                               ELSE files,
                     !.exit = IF quick.outcome = "raised" THEN "error"
                              ELSE "running"]
      ELSE same

\* recv() returns msg to call k: the body of the loop runs on it, then the
\* loop test and the next recv(), on the connection self.connection names
\* by then; when the call ends, the finally clause saves
\* final_seed_data.json
Receive(k, msg) ==
  /\ collect[k].at = "recv"
  /\ feed.open
  /\ \E r \in {Received(k, msg)} :
     \E call \in { IF r.exit = "running"
                   THEN AtLoopTest([collect[k] EXCEPT
                                      !.game_count = r.game_count,
                                      !.received = @ + 1,
                                      !.appended = r.appended,
                                      !.last = msg], k, connection)
                   ELSE Returned([collect[k] EXCEPT
                                    !.game_count = r.game_count,
                                    !.received = @ + 1,
                                    !.appended = r.appended,
                                    !.last = msg], r.exit) } :
       /\ games' = r.games
       /\ current_game' = r.current_game
       /\ hash_candidates' = r.hash_candidates
       /\ files' = FinallySaved(call, r.files, r.games)
       /\ collect' = [collect EXCEPT ![k] = call]
       /\ feed' = [feed EXCEPT
                     !.clock = @ + 1,
                     !.created = r.created,
                     !.in_round = IF msg.kind # "gameStateUpdate" THEN @
                                  ELSE IF msg.status = "playing" THEN TRUE
                                  ELSE IF msg.status = "rugged" THEN FALSE
                                  ELSE @,
                     !.ticks = IF msg.kind = "gameStateUpdate" /\ msg.status = "playing"
                                  /\ feed.in_round
                               THEN @ + 1 ELSE @]
  /\ UNCHANGED <<connection_active, connection>>
  /\ UNCHANGED othersOfCollect

\* a closed connection that ends the call without the finally clause
ConnectionClosedUnsaved(k) ==
  /\ collect[k].at = "recv"
  /\ feed' = [feed EXCEPT !.open = FALSE]
  /\ collect' = [collect EXCEPT ![k] = Returned(@, "connection closed")]
  /\ UNCHANGED <<games, current_game, hash_candidates, connection_active,
                 connection, files>>
  /\ UNCHANGED othersOfCollect

\* the recv() of call k raises ConnectionClosed: the server went away.
\* connection_active stays True
ConnectionClosed(k) ==
  /\ collect[k].at = "recv"
  /\ feed' = [feed EXCEPT !.open = FALSE]
  /\ collect' = [collect EXCEPT ![k] = Returned(@, "connection closed")]
  /\ files' = SaveData(files, "final_seed_data.json", games)
  /\ UNCHANGED <<games, current_game, hash_candidates, connection_active,
                 connection>>
  /\ UNCHANGED othersOfCollect

(***************************************************************************)
(* Collection from a feed that sends any messages.                         *)
(***************************************************************************)
\* the feed delivers at most MaxMessages messages in a behaviour
MaxMessages == 4
\* collect_data is called at most MaxCollects times
MaxCollects == 2
\* max_games is at most MaxRounds
MaxRounds == 2

Messages ==
  { Update("playing", NoneSeed), Update("rugged", SeedOfDate),
    Update("rugged", NoneSeed), Update("presale", NoneSeed),
    NotUpdate("tradeEvent"), NotUpdate("no type"), NotUpdate("malformed"),
    NotUpdate("number") }

CollectInit ==
  /\ SeedAnalyzerConstructed
  /\ DataAnalyzerConstructed
  /\ NothingRun
  /\ program = "seed_analysis"
  /\ data_file = [has_path |-> FALSE, jsonl |-> FALSE, records |-> <<>>]
  /\ master_file = NoMasterFile
  /\ feed \in {FeedAt(TRUE), FeedAt(FALSE)}

CollectNext ==
  \/ \E max_games \in -1..MaxRounds :
       Len(collect) < MaxCollects /\ StartCollect(max_games)
  \/ \E k \in 1..Len(collect) : Connect(k)
  \/ \E k \in 1..Len(collect), msg \in Messages :
       feed.clock < MaxMessages /\ Receive(k, msg)
  \/ \E k \in 1..Len(collect) : ConnectionClosed(k)

CollectSpec == CollectInit /\ [][CollectNext]_vars

(***************************************************************************)
(* Collection from a healthy feed: it stays open and plays one round after *)
(* the other, every message a gameStateUpdate that carries every field.    *)
(* A round starts with an update of status 'playing' and ends with one of  *)
(* status 'rugged'; in a behaviour at most MaxTicks more updates of status *)
(* 'playing' are sent inside rounds.                                       *)
(***************************************************************************)
MaxTicks == 1

\* the values of max_games of a collection from the healthy feed
LiveMaxGames == {1, SaveEvery, QuickEvery, QuickEvery + 1}

\* the messages the healthy feed may send next
HealthyMessages ==
  IF ~feed.in_round THEN {Update("playing", NoneSeed)}
  ELSE {Update("rugged", SeedOfDate)}
       \cup (IF feed.ticks < MaxTicks THEN {Update("playing", NoneSeed)} ELSE {})

LiveInit ==
  /\ SeedAnalyzerConstructed
  /\ DataAnalyzerConstructed
  /\ NothingRun
  /\ program = "seed_analysis"
  /\ data_file = [has_path |-> FALSE, jsonl |-> FALSE, records |-> <<>>]
  /\ master_file = NoMasterFile
  /\ feed \in {FeedAt(TRUE), [FeedAt(TRUE) EXCEPT !.in_round = TRUE]}

\* collect_data is called once
LiveNext ==
  \/ \E max_games \in LiveMaxGames : collect = NoCollect /\ StartCollect(max_games)
  \/ \E k \in 1..Len(collect) : Connect(k)
  \/ \E k \in 1..Len(collect), msg \in HealthyMessages : Receive(k, msg)

\* the call is scheduled whenever its connect has returned or a message is
\* there for its recv()
LiveSpec == LiveInit /\ [][LiveNext]_vars /\ WF_vars(LiveNext)

(***************************************************************************)
(* Collection over ten rounds and more, one call after the other on the    *)
(* same object, from a feed that stays open and plays one round after the  *)
(* other; the update that ends a round may come without serverSeed.        *)
(***************************************************************************)
\* the values of max_games of these calls
ProgressMaxGames == {1, SaveEvery}

\* the messages the feed may send next
ProgressMessages ==
  HealthyMessages
    \cup (IF feed.in_round THEN {Update("rugged", NoneSeed)} ELSE {})

\* collect_data is called, and called again once the call before it has
\* returned
ProgressNext ==
  \/ \E max_games \in ProgressMaxGames :
       /\ Len(collect) < MaxCollects
       /\ ~Collecting
       /\ StartCollect(max_games)
  \/ \E k \in 1..Len(collect) : Connect(k)
  \/ \E k \in 1..Len(collect), msg \in ProgressMessages : Receive(k, msg)

ProgressSpec == LiveInit /\ [][ProgressNext]_vars

(***************************************************************************)
(* Properties of the analyses on stored data, under AnalysisSpec.          *)
(***************************************************************************)
\* a step that is a call of brute_force_seed_generation
SearchCalled == Len(calls') = Len(calls) + 1

\* C11: when games is not empty, a call of brute_force_seed_generation,
\* whether it returns or raises, leaves games, current_game,
\* hash_candidates, time_patterns and bit_patterns as they were and writes
\* no file
C11_SearchLeavesObjectAlone ==
  [][ (SearchCalled /\ games # <<>>) =>
        /\ games' = games
        /\ current_game' = current_game
        /\ hash_candidates' = hash_candidates
        /\ time_patterns' = time_patterns
        /\ bit_patterns' = bit_patterns
        /\ files' = files ]_vars

\* the search has run on an object whose full analysis stored patterns and
\* wrote files, and has found hypotheses on a part of its games
C11_Witness ==
  /\ Len(calls) = 1
  /\ Len(analyses) = 1
  /\ analyses[1].name = "run_full_analysis"
  /\ time_patterns.stored
  /\ bit_patterns.stored
  /\ files # {}
  /\ calls[1].status = "returned patterns"
  /\ calls[1].found_patterns # <<>>
  /\ Cardinality(calls[1].sample_pos) < Len(games)

\* the document seed_analysis_results.json, when it has been written
ResultsFiles == {f \in files : f.name = "seed_analysis_results.json"}

\* whether an entry of the brute-force part of a document carries the
\* validation result v of a hypothesis
CarriesValidation(entry, v) ==
  /\ {"matches", "total", "success_rate"} \subseteq DOMAIN entry
  /\ entry.matches = v.matches
  /\ entry.total = v.total
  /\ entry.success_rate = v.success_rate

\* the full analyses that returned after a brute-force phase that validated
\* its hypotheses
ValidatedAnalyses ==
  { k \in 1..Len(analyses) :
      /\ analyses[k].name = "run_full_analysis"
      /\ analyses[k].outcome = "returned"
      /\ analyses[k].brute_force # <<>>
      /\ analyses[k].brute_force[1].validation_results # <<>> }

\* C12: the JSON document written by a full analysis contains, for the
\* brute-force phase, the surviving hypotheses together with the validation
\* result (matches, total, rate) of each of them
C12_DocumentHoldsValidation ==
  \A k \in ValidatedAnalyses :
    \A f \in ResultsFiles :
      LET search == analyses[k].brute_force[1]
      IN  /\ \A n \in 1..Len(search.found_patterns) :
               search.found_patterns[n] \in Range(f.content.brute_force)
          /\ \A n \in 1..Len(search.validation_results) :
               \E e \in 1..Len(f.content.brute_force) :
                 CarriesValidation(f.content.brute_force[e],
                                   search.validation_results[n])

\* C13: no error is fatal to a full analysis: when a phase raises, the later
\* phases are still executed and the results are still written, in
\* run_full_analysis and in main --full-analysis of the data analyzer
C13_LaterPhasesStillRun ==
  \A k \in 1..Len(analyses) :
    /\ analyses[k].name = "run_full_analysis" =>
         /\ Len(analyses[k].phases) = 4
         /\ ResultsFiles # {}
    /\ ( /\ analyses[k].name = "main"
         /\ "full_analysis" \in analyses[k].flags
         /\ analyses[k].load = "True" ) =>
         Len(analyses[k].ran) = Len(MainSteps)

(***************************************************************************)
(* Properties of live collection, under CollectSpec and LiveSpec.          *)
(***************************************************************************)
\* a step in which call k handled the message collect'[k].last
HandledBy(k) ==
  /\ Len(collect') = Len(collect)
  /\ collect'[k].received = collect[k].received + 1

\* a step in which a call handled a message
MessageHandled == \E k \in 1..Len(collect) : HandledBy(k)

\* the message handled in the step
LastHandled == collect'[CHOOSE k \in 1..Len(collect) : HandledBy(k)].last

\* a step in which call k appended a record
AppendedBy(k) ==
  /\ Len(collect') = Len(collect)
  /\ collect'[k].appended = collect[k].appended + 1

\* the dictionaries a list holds, in order
Oids(g) == [k \in 1..Len(g) |-> g[k].oid]

\* C14: during live collection a record is appended to games exactly when
\* a gameStateUpdate of status 'rugged' is handled while a round is open;
\* no other message changes games, and the records are appended in the
\* order their rounds ended
C14_AppendedExactlyOnRugged ==
  [][ IF MessageHandled /\ Ends(LastHandled, current_game)
      THEN /\ Oids(games') = Append(Oids(games), current_game.game.oid)
           /\ games'[Len(games')].serverSeed = LastHandled.serverSeed
           /\ games'[Len(games')].timestamp = current_game.game.timestamp
      ELSE games' = games ]_vars

\* two rounds were collected one after the other, and the call went on
\* after the first
C14_Witness ==
  /\ Len(games) = 2
  /\ games[1].oid # games[2].oid
  /\ Len(collect) = 1
  /\ collect[1].game_count = 2
  /\ collect[1].last.status = "rugged"

\* C15: each record is appended once and is not changed afterwards: over
\* any messages and any number of calls of collect_data, no dictionary is
\* twice in games and no field of a record in games is changed
C15_RecordsStoredOnceAndKept ==
  [][ /\ \A i \in 1..Len(games) : Len(games') >= i /\ games'[i] = games[i]
      /\ \A i, j \in 1..Len(games') : i # j => games'[i].oid # games'[j].oid ]_vars

\* C16: collect_data(max_games) appends at most max_games records, receives
\* no message once game_count has reached max_games, and receives none at
\* all when max_games <= 0: no call waits in recv() then
C16_StopsAtMaxGames ==
  \A k \in 1..Len(collect) :
    /\ collect[k].appended <= Max(0, collect[k].max_games)
    /\ collect[k].game_count <= Max(0, collect[k].max_games)
    /\ collect[k].at = "recv" => collect[k].game_count < collect[k].max_games
    /\ collect[k].max_games <= 0 =>
         collect[k].received = 0 /\ collect[k].at # "recv"

\* a second call has stopped on reaching max_games = 2, with the messages
\* of two rounds received
C16_Witness ==
  /\ Len(collect) = 2
  /\ collect[2].exit = "max_games"
  /\ collect[2].max_games = 2
  /\ collect[2].appended = 2
  /\ collect[2].received = 4
  /\ ~Collecting

\* C17: reaching max_games is the only thing that stops a collection from
\* a feed that stays open and delivers only well-formed gameStateUpdate
\* messages carrying every field: a call of collect_data(max_games) that
\* has stopped has appended max_games records and stopped on the test of
\* its loop, also for max_games of 50 and more
C17_StopsOnlyAtMaxGames ==
  \A c \in 1..Len(collect) :
    ~collect[c].running =>
      /\ collect[c].exit = "max_games"
      /\ collect[c].appended = collect[c].max_games

(***************************************************************************)
(* Properties of loading and of the analyses on too few records, under     *)
(* AnalysisSpec.                                                           *)
(***************************************************************************)
\* C18: load_data on a JSONL file skips a malformed line and goes on: after
\* the call games holds every parseable line of the file in file order and
\* the call reports success
C18_LoadSkipsMalformedLine ==
  (loaded # "not called" /\ data_file.has_path /\ data_file.jsonl) =>
    /\ games = SelectSeq(data_file.records, LAMBDA line : ~IsMalformed(line))
    /\ loaded = "True"

\* the positions in raw_games of the games that can be processed
Processable == {k \in 1..Len(raw_games) : IsGameObject(raw_games[k])}

\* C19: after a successful load_collected_data, raw_games holds exactly the
\* parseable lines of all-games.jsonl in file order, and the frame has one
\* row per game that could be processed, in the same order, game_number
\* being the 1-based position of the game in raw_games
C19_LoadCollectedSkipsMalformed ==
  games_df.loaded =>
    /\ raw_games = SelectSeq(master_file.lines, LAMBDA line : ~IsMalformed(line))
    /\ {games_df.rows[n].game_number : n \in 1..Len(games_df.rows)} = Processable
    /\ Len(games_df.rows) = Cardinality(Processable)
    /\ \A n \in 1..Len(games_df.rows) :
         LET row == games_df.rows[n]
             game == raw_games[row.game_number]
         IN  /\ n > 1 => games_df.rows[n - 1].game_number < row.game_number
             /\ row.game_id = game.gameId
             /\ row.peak_multiplier = game.peakMultiplier
             /\ row.is_instarug = game.isInstarug

\* a file was loaded in which a line that is not JSON and a value that is
\* not an object stand before a game
C19_Witness ==
  /\ games_df.loaded
  /\ master_file.lines = MixedLines
  /\ Len(raw_games) = 3
  /\ Len(games_df.rows) = 2
  /\ games_df.rows[2].game_number = 3
  /\ analyses # <<>>
  /\ analyses[1].name = "load_collected_data"

\* a step that is a call of the analysis name
AnalysisCalled(name) ==
  /\ Len(analyses') = Len(analyses) + 1
  /\ analyses'[Len(analyses')].name = name

\* C20: analyze_cross_game_patterns with fewer than 10 complete lagged
\* rows, build_prediction_model with fewer than 100 games and
\* run_quick_analysis with fewer than 10 games return without a result and
\* leave games_df, raw_games and games as they were
C20_TooFewRecordsAbortAlone ==
  [][ /\ ( /\ AnalysisCalled("analyze_cross_game_patterns")
           /\ games_df.loaded
           /\ Len(LaggedRows(games_df.rows)) < CrossGameMinRows ) =>
           /\ analyses'[Len(analyses')].outcome = "None: insufficient data"
           /\ UNCHANGED <<games_df, raw_games, games, files>>
      /\ ( /\ AnalysisCalled("build_prediction_model")
           /\ games_df.loaded
           /\ Len(games_df.rows) < ModelMinGames ) =>
           /\ analyses'[Len(analyses')].outcome = "None: insufficient data"
           /\ UNCHANGED <<games_df, raw_games, games, files>>
      /\ ( /\ AnalysisCalled("run_quick_analysis")
           /\ Len(games) < QuickMinGames ) =>
           /\ analyses'[Len(analyses')].outcome = "too few games"
           /\ UNCHANGED <<games_df, raw_games, games, hash_candidates, files>>
    ]_vars

\* the cross-game analysis was called on a loaded frame of 11 games, which
\* give 9 complete lagged rows, and returned without a result
C20_Witness ==
  /\ Len(analyses) = 2
  /\ analyses[1].name = "load_collected_data"
  /\ analyses[2].name = "analyze_cross_game_patterns"
  /\ analyses[2].outcome = "None: insufficient data"
  /\ games_df.loaded
  /\ Len(games_df.rows) = CrossGameMinRows + 1
  /\ Len(LaggedRows(games_df.rows)) = CrossGameMinRows - 1

(***************************************************************************)
(* analyze_time_patterns (lines 667-870) with its bit-position test       *)
(* (lines 771-798) computed.  Here a seed is the sequence of its hex       *)
(* digits, each a number 0..15, so that the bits the test reads are the    *)
(* bits of the seed.                                                       *)
(***************************************************************************)
\* at most MaxSeeds seeds are tested
MaxSeeds == 5

\* 1000 times the value the chi-square statistic of one degree of freedom
\* exceeds exactly when p_value < 0.05 (3.8414...); no statistic (z - o)^2 / n
\* of at most 38 seeds lies between 3.841 and that value
Critical1000 == 3841

\* bin(int(seed, 16))[2:].zfill(len(seed) * 4): four bits per hex digit, the
\* high bit first
RECURSIVE BinaryOf(_)
BinaryOf(hex) ==
  IF hex = <<>> THEN <<>>
  ELSE << Head(hex) \div 8, (Head(hex) \div 4) % 2, (Head(hex) \div 2) % 2,
          Head(hex) % 2 >> \o BinaryOf(Tail(hex))

\* p_value < 0.10 in place of p_value < 0.05
SignificantAtTenth(zeros, ones) ==
  1000 * (zeros - ones) * (zeros - ones) > 2705 * (zeros + ones)

\* chisquare([zeros, ones], [n / 2, n / 2]) gives p_value < 0.05: the
\* statistic is (zeros - ones)^2 / n
Significant(zeros, ones) ==
  1000 * (zeros - ones) * (zeros - ones) > Critical1000 * (zeros + ones)

\* bit_patterns of the seeds: the positions stored, with their counts (the
\* seeds are as long as the first one)
BitPatternsOf(seeds) ==
  LET binary_seeds == [k \in 1..Len(seeds) |-> BinaryOf(seeds[k])]
      count(bit_pos, v) ==
        Cardinality({k \in 1..Len(seeds) : binary_seeds[k][bit_pos + 1] = v})
  IN  { [bit_pos |-> bit_pos, zeros |-> count(bit_pos, 0), ones |-> count(bit_pos, 1)] :
          bit_pos \in { b \in 0..(Min(BitWindow, Len(binary_seeds[1])) - 1) :
                          Significant(count(b, 0), count(b, 1)) } }

\* the hex digits the seeds of the test are made of
BitDigits == {0, 5, 8, 15}

\* a record whose seed is the one hex digit d
BitRecord(d) == [gameId |-> GameIdPlain, timestamp |-> T2, serverSeed |-> <<d>>]

\* the data files of the test: one to MaxSeeds records; a file whose last
\* record has no gameId; an empty file; no path
BitDataFiles ==
  { [has_path |-> TRUE, jsonl |-> TRUE,
     records |-> [k \in 1..Len(d) |-> BitRecord(d[k])]] :
      d \in UNION {[1..n -> BitDigits] : n \in 1..MaxSeeds} }
  \cup { [has_path |-> TRUE, jsonl |-> TRUE,
          records |-> <<BitRecord(0), [timestamp |-> T1, serverSeed |-> <<5>>]>>],
         [has_path |-> TRUE, jsonl |-> TRUE, records |-> <<>>],
         [has_path |-> FALSE, jsonl |-> FALSE, records |-> <<>>] }

BitInit ==
  /\ SeedAnalyzerConstructed
  /\ DataAnalyzerConstructed
  /\ NothingRun
  /\ program = "seed_analysis"
  /\ data_file \in BitDataFiles
  /\ feed = NoFeed
  /\ master_file = NoMasterFile

\* game_id_patterns: the positions (from 0) of the pooled records whose
\* gameId is <8 characters>-<id> with the date of the timestamp before the
\* dash (lines 705-726)
GameIdPatterns(pool) ==
  SelectSeq([i \in 1..Len(pool) |-> i - 1],
    LAMBDA i :
      /\ Contains(pool[i + 1].gameId, <<"-">>)
      /\ Len(Split(pool[i + 1].gameId, "-")) = 2
      /\ Split(pool[i + 1].gameId, "-")[1]
           = TimeValue("date", pool[i + 1].timestamp, pool[i + 1]))

\* time_diffs (line 703): each difference as its whole seconds and the
\* difference of the microseconds
TimeDiffs(pool) ==
  [i \in 1..(Len(pool) - 1) |->
     << EpochSeconds(pool[i + 1].timestamp) - EpochSeconds(pool[i].timestamp),
        pool[i + 1].timestamp.microsecond - pool[i].timestamp.microsecond >>]

\* analyze_time_patterns() on records whose seeds are sequences of hex
\* digits, each shorter than one digest prefix (so that no digest matches
\* and seed_time_patterns stays empty).  The chi-square tests of the bit
\* sequences (lines 800-826) are left to the library.
PhaseTimeHex(st) ==
  IF st.raised THEN st
  ELSE IF StoppedAtGuard(st) THEN Outcome(AfterGuard(st), "time_patterns", "None")
  ELSE
    LET in == AfterGuard(st)
        pool == SelectSeq(in.games, InPool)
        seeds == [k \in 1..Len(pool) |-> pool[k].serverSeed]
    IN  IF \/ \E k \in 1..Len(pool) : "gameId" \notin DOMAIN pool[k]
           \/ pool = <<>>
           \/ \E k \in 1..Len(seeds) : seeds[k] = <<>>
           \/ \E k \in 1..Len(seeds) :
                Len(BinaryOf(seeds[k])) < Min(BitWindow, Len(BinaryOf(seeds[1])))
        THEN Outcome(in, "time_patterns", "raised")
        ELSE Outcome(
               [in EXCEPT
                  !.time_patterns =
                     [stored |-> TRUE, analyzed |-> Len(pool),
                      game_id_patterns |-> GameIdPatterns(pool),
                      seed_time_patterns |-> <<>>,
                      bit_patterns |-> BitPatternsOf(seeds),
                      time_diffs |-> TimeDiffs(pool)],
                  !.files =
                     IF BitPatternsOf(seeds) # {}
                     THEN WriteFile(WriteFile(@, "time_differences.png", Image),
                                    "bit_patterns.png", Image)
                     ELSE WriteFile(@, "time_differences.png", Image)],
               "time_patterns", "returned")

\* analyze_time_patterns()
AnalyzeTimePatterns ==
  /\ program = "seed_analysis"
  /\ MayRun
  /\ \E st \in {PhaseTimeHex(StageOf(games))} :
       /\ games' = st.games
       /\ loaded' = st.loaded
       /\ time_patterns' = st.time_patterns
       /\ files' = st.files
       /\ analyses' = Append(analyses, st.phases[1])
  /\ UNCHANGED <<calls, hash_candidates, bit_patterns>>
  /\ UNCHANGED othersOfSeedAnalysis

BitNext ==
  \/ LoadData
  \/ AnalyzeTimePatterns

BitSpec == BitInit /\ [][BitNext]_vars

\* the bit of position bit_pos is v in every seed of games
AlwaysBit(bit_pos, v) ==
  \A k \in 1..Len(games) : BinaryOf(games[k].serverSeed)[bit_pos + 1] = v

\* as many seeds of games have 0 as have 1 at position bit_pos
EvenBit(bit_pos) ==
  Cardinality({k \in 1..Len(games) : BinaryOf(games[k].serverSeed)[bit_pos + 1] = 0})
    * 2 = Len(games)

\* position bit_pos is a key of the stored bit_patterns
RecordedBit(bit_pos) == \E e \in time_patterns.bit_patterns : e.bit_pos = bit_pos

\* the positions of a seed of one hex digit
BitPositions == 0..3

\* C21 as stated: for every set of seeds in which a position is 0 in every
\* seed the position is recorded as significant, whatever the number of
\* seeds, and a position with equal counts of 0 and 1 is never recorded
C21_AlwaysZeroFlagged ==
  time_patterns.stored =>
    \A b \in BitPositions :
      /\ AlwaysBit(b, 0) => RecordedBit(b)
      /\ EvenBit(b) => ~RecordedBit(b)

\* C21 amended: a position that is 0 in every seed is recorded as
\* significant exactly when there are at least 4 seeds, and a position with
\* equal counts of 0 and 1 is never recorded
C21_AlwaysZeroFlaggedFromFour ==
  time_patterns.stored =>
    \A b \in BitPositions :
      /\ (AlwaysBit(b, 0) /\ Len(games) >= MinSignificant) => RecordedBit(b)
      /\ (AlwaysBit(b, 0) /\ Len(games) < MinSignificant) => ~RecordedBit(b)
      /\ EvenBit(b) => ~RecordedBit(b)

\* four seeds were tested: one position is 0 in all of them and recorded,
\* another has two of each and is not
C21_Witness ==
  /\ time_patterns.stored
  /\ Len(games) = MinSignificant
  /\ \E b \in BitPositions : AlwaysBit(b, 0) /\ RecordedBit(b)
  /\ \E b \in BitPositions : EvenBit(b) /\ ~RecordedBit(b)


(* The pairs of the cross-game analysis (lines 181-204 of analysis_tools.py):
   the row of game i carries the peak of game i - 1 and the instarug flag of
   game i + 1. *)

\* the cross-game analysis has computed its table from the frame
CrossGameTabulated ==
  \E k \in 1..Len(analyses) :
    /\ analyses[k].name = "analyze_cross_game_patterns"
    /\ analyses[k].outcome \in {"returned", "raised"}

\* the position in the frame of the row numbered game_number
RowOf(rows, game_number) ==
  CHOOSE k \in 1..Len(rows) : rows[k].game_number = game_number

\* C22: every pair the cross-game analysis counts takes its peak from a
\* game k and its instarug flag from the immediately following game k + 1
C22_PairsConsecutiveGames ==
  CrossGameTabulated =>
    \A pairs \in {LaggedRows(games_df.rows)} :
      \A n \in 1..Len(pairs) :
        \E i \in {RowOf(games_df.rows, pairs[n].game_number)} :
          \E k \in {i - 1, i} :
            /\ pairs[n].prev_peak = games_df.rows[k].peak_multiplier
            /\ pairs[n].next_is_instarug = games_df.rows[k + 1].is_instarug


(* The samples of build_prediction_model (lines 388-408 of
   analysis_tools.py). *)

\* build_prediction_model has built its samples from the frame
ModelSampled ==
  /\ games_df.loaded
  /\ Len(games_df.rows) >= ModelMinGames
  /\ \E k \in 1..Len(analyses) : analyses[k].name = "build_prediction_model"

\* C23: build_prediction_model makes exactly one sample for every position
\* i from 5 to len - 1; its 20 features are the peak multiplier, final tick,
\* instarug flag as 0/1 and duration of games i - 5 .. i - 1 in collection
\* order, and its target is the instarug flag of game i
C23_SamplesUseEarlierGames ==
  ModelSampled =>
    \A rows \in {games_df.rows} :
      \A samples \in {ModelSamples(rows)} :
        /\ Len(samples) = Len(rows) - 5
        /\ \A i \in 5..(Len(rows) - 1) :
             /\ Len(samples[i - 4].features) = 20
             /\ \A g \in (i - 5)..(i - 1) :
                  SubSeq(samples[i - 4].features,
                         4 * (g - i + 5) + 1, 4 * (g - i + 5) + 4)
                    = << rows[g + 1].peak_multiplier, rows[g + 1].final_tick,
                         IF rows[g + 1].is_instarug THEN 1 ELSE 0,
                         rows[g + 1].duration_seconds >>
             /\ samples[i - 4].target
                  = IF rows[i + 1].is_instarug THEN 1 ELSE 0

\* the model was built from a frame of the smallest size the method takes,
\* which gives 95 samples
C23_Witness ==
  /\ ModelSampled
  /\ Len(games_df.rows) = ModelMinGames
  /\ Len(ModelSamples(games_df.rows)) = ModelMinGames - SequenceLength
  /\ \E k \in 1..Len(analyses) :
       /\ analyses[k].name = "build_prediction_model"
       /\ analyses[k].outcome = "returned"


(* The order of main() of analysis_tools.py (lines 465-507). *)

\* the names of the analyses main is asked for by flags, from step k on, in
\* the order of its if statements
RECURSIVE Requested(_, _)
Requested(k, flags) ==
  IF k > Len(MainSteps) THEN <<>>
  ELSE (IF MainSteps[k].flag \in flags \/ "full_analysis" \in flags
        THEN <<MainSteps[k].name>> ELSE <<>>) \o Requested(k + 1, flags)

\* C24: main loads the data first; when the load fails no analysis runs,
\* and otherwise the analyses that ran are exactly those whose flag or
\* --full-analysis is set, each once, in the order basic patterns,
\* cross-game patterns, PRNG verification, visualizations, prediction model
C24_MainRunsEveryRequestedAnalysis ==
  \A k \in 1..Len(analyses) :
    analyses[k].name = "main" =>
      /\ analyses[k].load # "True" => analyses[k].ran = <<>>
      /\ analyses[k].load = "True" =>
           [n \in 1..Len(analyses[k].ran) |-> analyses[k].ran[n].name]
             = Requested(1, analyses[k].flags)


(* The progress saves of collect_data (lines 96-108, 149-156). *)

\* the files other than the one the finally clause writes
ProgressFiles(fs) == {f \in fs : f.name # "final_seed_data.json"}

\* C25: a progress save to seed_data_<k>.json happens right after the k-th
\* round completed in this call if and only if k is a positive multiple of
\* 10, and the saved list holds every record in games at that moment, the
\* k-th included; a round has completed when its record is appended
C25_ProgressSaveEveryTenth ==
  [][ LET completed == \E c \in 1..Len(collect) : AppendedBy(c)
          k == collect'[CHOOSE c \in 1..Len(collect) : AppendedBy(c)].appended
          saved == [ name |-> SeedDataName(k),
                     content |-> [kind |-> "json", games |-> games'] ]
      IN  /\ (completed /\ k % 10 = 0) =>
               /\ Len(games') = Len(games) + 1
               /\ saved \in files'
          /\ ProgressFiles(files') # ProgressFiles(files) =>
               /\ completed
               /\ k % 10 = 0
               /\ ProgressFiles(files') \ ProgressFiles(files) = {saved}
    ]_vars


(* The finally clause of collect_data (lines 57-61, 114-121). *)

\* the file the finally clause writes, if it is there
FinalFiles(fs) == {f \in fs : f.name = "final_seed_data.json"}

\* C26: once connected, every exit of collect_data (max_games reached,
\* connection closed, another exception) comes with exactly one save of
\* games to final_seed_data.json, and the file is written at no other
\* moment; when the connection attempt fails the call returns without
\* saving and without changing games
C26_FinalSaveOnEveryExit ==
  [][ LET returned == {k \in 1..Len(collect') :
                         /\ ~collect'[k].running
                         /\ k <= Len(collect) => collect[k].running}
          returns == returned # {}
          connected == \A k \in returned : collect'[k].exit # "connect failed"
      IN  /\ (returns /\ connected) =>
               /\ \A k \in returned :
                    collect'[k].exit \in {"max_games", "connection closed", "error"}
               /\ FinalFiles(files')
                    = {[ name |-> "final_seed_data.json",
                         content |-> [kind |-> "json", games |-> games'] ]}
          /\ (returns /\ ~connected) => files' = files /\ games' = games
          /\ ~returns => FinalFiles(files') = FinalFiles(files)
    ]_vars

\* a call ended by the closed connection after a round was stored, and the
\* final file holds the record
C26_Witness ==
  /\ \E k \in 1..Len(collect) : collect[k].exit = "connection closed"
  /\ Len(games) > 0
  /\ FinalFiles(files)
       = {[ name |-> "final_seed_data.json",
            content |-> [kind |-> "json", games |-> games] ]}


(* The game_id encoding of the two phases of brute_force_seed_generation
   (lines 171-197 and 333-368). *)

\* C27: in candidate generation the game_id value used for a pooled record
\* is that record's own gameId, the value validation computes for the
\* record
C27_GameIdOfOwnRecord ==
  Called =>
    \A e \in bf.log :
      e.time_format = "game_id" =>
        e.time_val
          = ValidationTimeValue("game_id", bf.games[e.pos].timestamp,
                                bf.games[e.pos])


(* The validation results of brute_force_seed_generation (lines 304-331,
   333-410). *)

\* the keys of the hypotheses a call found
FoundKeys(call) ==
  {PatternKey(call.found_patterns[k]) : k \in 1..Len(call.found_patterns)}

\* validation ran in the last call: the generation loop ended, with a
\* hypothesis found and more games than sample_size
Validated ==
  /\ Searched
  /\ bf.stage # "generation"
  /\ Validates(bf.found_patterns, bf.games, bf.sample_size)


\* the message handled in this step is a gameStateUpdate of status 'playing'
PlayingHandled ==
  /\ MessageHandled
  /\ LastHandled.kind = "gameStateUpdate"
  /\ LastHandled.status = "playing"

\* a record was appended in this step
RoundAppended == \E k \in 1..Len(collect) : AppendedBy(k)

\* while current_game is set, a 'playing' message leaves current_game and
\* games unchanged
OpenRoundKept ==
  (PlayingHandled /\ current_game.open) =>
     current_game' = current_game /\ games' = games

\* the appended record carries the gameId and the timestamp of the round
\* that was open
RecordOfOpenRound ==
  RoundAppended =>
    /\ current_game.open
    /\ games'[Len(games')].gameId = current_game.game.gameId
    /\ games'[Len(games')].timestamp = current_game.game.timestamp

\* after a round is appended current_game is None, and it stays None until
\* a 'playing' message
NoneUntilPlaying ==
  /\ RoundAppended => ~current_game'.open
  /\ (~current_game.open /\ current_game'.open) => PlayingHandled

\* C29: an open round is never overwritten: while current_game is set a
\* 'playing' message leaves current_game and games unchanged, so the
\* appended record carries the gameId and timestamp captured at the first
\* 'playing' message after the previous round ended, and after a round is
\* appended current_game is None until the next 'playing' message
C29_OpenRoundNeverOverwritten ==
  [][OpenRoundKept /\ RecordOfOpenRound /\ NoneUntilPlaying]_vars


(* The records after a load that fails (lines 123-147). *)

\* C30: whenever load_data returns False (no path, or a malformed line or
\* document), games holds exactly the records it held before the call
C30_FailedLoadLeavesGames ==
  [][loaded' = "False" => games' = games]_vars

=============================================================================
